---------------------------- MODULE Spec2Model ----------------------------
(***************************************************************************)
(* A model of the basealloc heap allocator.                                *)
(*                                                                         *)
(* Part 1 is the size-class resolver (classes.rs) with the constants of a  *)
(* 64-bit build; it is explored by SpecSC, which feeds class_for with      *)
(* request sizes.                                                          *)
(*                                                                         *)
(* Part 2 is the allocator proper: thread caches (tcache.rs), arenas       *)
(* (arena.rs), bins (bin.rs), slabs (slab.rs), the ownership maps          *)
(* (lookup.rs) and the entry points (src/lib.rs, ffi/src/lib.rs).  It is   *)
(* explored by Spec over a scaled geometry: a page of PageSize bytes, the  *)
(* first HNCLASSES tiny classes with quantum HQUANTUM, and the large path  *)
(* from HCUTOFF on.  Slab sizes and ring capacities are derived from these *)
(* by the formulas of generate_pages and generate_cache_sizes.             *)
(***************************************************************************)
EXTENDS Integers, Sequences, FiniteSets, TLC

VARIABLES
  sz,            \* SpecSC: the request size handed to class_for
  ci,            \* SpecSC: what class_for returned for sz
  slabs,         \* every Slab ever created (bump storage is never freed)
  larges,        \* the large Extents that exist: [base, len]
  bins,          \* bins[a][c]: free_head, active_head, active_tail
  etree,         \* etree[a]: page address -> OwnerInfo (the arena's ExtentTree)
  amap,          \* ARENA_MAP: page address -> arena id
  LOOKUP,        \* static_.rs LOOKUP: page address -> Entry
  mapped,        \* page addresses the OS currently has mapped for extents
  mem,           \* the byte at every address of the pages extents are mapped at
  rtree,         \* an RTree: its root, the nodes its bump handed out, the bump's chunks
  ring,          \* a Ring<T, N>: buf, head, tail, len
  bitmap,        \* a Bitmap: its words (the set bits of each), bits, used
  links,         \* the Link (next, prev) of each of the list nodes driven on their own
  bump,          \* the Bump driven on its own: its chunks, and the OS's view of their extents
  dir,           \* the arena directory and the threads acquiring from it, driven on their own
  race,          \* a remove and an insert running on the RTree at once: where each caller is
  tc,            \* tc[t]: the thread cache (shared slot store and ring indices)
  thread_arena,  \* THREAD_ARENA of each thread
  arena_bm,      \* STATIC.bitmap: directory slots taken
  bm_last,       \* BM_LAST
  alive,         \* threads that have not exited
  live,          \* ghost: allocations handed to the user and not yet freed
  last           \* ghost: the last entry-point call and what it returned

scvars == <<sz, ci>>
heapvars == <<slabs, larges, bins, etree, amap, LOOKUP, mapped, mem, tc, thread_arena,
              arena_bm, bm_last, alive,
              rtree, ring, bitmap, links, bump, dir, race>>
vars == <<sz, ci, slabs, larges, bins, etree, amap, LOOKUP, mapped, mem, tc, thread_arena,
          arena_bm, bm_last, alive, live, last, rtree, ring, bitmap, links, bump, dir, race>>

(***************************************************************************)
(* Part 1: size classes (crates/basealloc-alloc/src/classes.rs)            *)
(***************************************************************************)
WORD == 8
BITS_PER_BYTE == 8
WORD_BITS == WORD * BITS_PER_BYTE
WORD_TRAILING == 3

QUANTUM == WORD * 2
NGROUPSEX == 2
NGROUPS == 2 ^ NGROUPSEX
NTINY == NGROUPS * QUANTUM
TINY_CUTOFF == NTINY * QUANTUM

\* const fn log2c: the number of shifts that bring x - 1 to zero.
RECURSIVE shifts_to_zero(_)
shifts_to_zero(x) == IF x > 0 THEN 1 + shifts_to_zero(x \div 2) ELSE 0

log2c(x) == shifts_to_zero(x - 1)

FIRST_REGULAR == log2c(TINY_CUTOFF)
MAX_REGULAR == (2 * WORD_BITS) \div 6
NREGULAR == (MAX_REGULAR - FIRST_REGULAR) * NGROUPS
NSCLASSES == NTINY + NREGULAR
SCLASS_CUTOFF == 2 ^ MAX_REGULAR
LOOKUP_SHIFT == WORD_TRAILING + 1

\* Option<SizeClassIndex>::None
NoClass == 0 - 1

div_ceil(a, b) == (a + b - 1) \div b

\* generate_classes: the size stored at CLASSES[idx].  The tiny loop writes
\* (idx + 1) * QUANTUM; the regular loop writes, for group g and step i,
\* base + delta * (i + 1) at idx = NTINY + (g - FIRST_REGULAR) * NGROUPS + i.
CLASSES(idx) ==
  IF idx < NTINY
  THEN (idx + 1) * QUANTUM
  ELSE LET group == FIRST_REGULAR + ((idx - NTINY) \div NGROUPS)
           i     == (idx - NTINY) % NGROUPS
           base  == 2 ^ group
           delta == base \div (2 ^ NGROUPSEX)
       IN  base + delta * (i + 1)

\* generate_tiny_lookup: table[i]
TINY_LOOKUP(i) ==
  LET size == (i + 1) * (2 ^ LOOKUP_SHIFT)
  IN  div_ceil(size, QUANTUM) - 1

\* usize::BITS - size.leading_zeros() - 1, for size > 0
ilog2(size) == shifts_to_zero(size) - 1

class_for_regular(size) ==
  LET log       == ilog2(size)
      group_idx == log - FIRST_REGULAR
      base      == 2 ^ log
      delta     == base \div (2 ^ NGROUPSEX)
      offset    == IF size > base THEN (size - base - 1) \div delta ELSE 0
  IN  NTINY + group_idx * NGROUPS + offset

class_for_cutoff_inclusive(size) ==
  IF size = 0 \/ size > SCLASS_CUTOFF THEN NoClass
  ELSE IF size <= TINY_CUTOFF
       THEN TINY_LOOKUP((size - 1) \div (2 ^ LOOKUP_SHIFT))
       ELSE class_for_regular(size)

class_for(size) ==
  IF size = 0 \/ size >= SCLASS_CUTOFF THEN NoClass
  ELSE IF size <= TINY_CUTOFF
       THEN TINY_LOOKUP((size - 1) \div (2 ^ LOOKUP_SHIFT))
       ELSE class_for_regular(size)

\* The request sizes SpecSC feeds to class_for: every size up to a little
\* past the tiny range, the neighbourhood of every class size and of every
\* power of two, and the neighbourhood of the cutoff.
ProbeSpan == 40

SizeInputs ==
  (0 .. (TINY_CUTOFF + ProbeSpan))
  \cup UNION { { CLASSES(i) - 1, CLASSES(i), CLASSES(i) + 1 } : i \in 0 .. (NSCLASSES - 1) }
  \cup UNION { { 2 ^ k - 1, 2 ^ k, 2 ^ k + 1 } : k \in FIRST_REGULAR .. (MAX_REGULAR + 1) }
  \cup (SCLASS_CUTOFF .. (SCLASS_CUTOFF + ProbeSpan))

(***************************************************************************)
(* Part 2: the allocator over a scaled geometry                            *)
(***************************************************************************)
PageSize == 2       \* page_size(), scaled
HQUANTUM == 1       \* QUANTUM, scaled
HNCLASSES == 2      \* the tiny classes kept: sizes (idx + 1) * HQUANTUM
HCUTOFF == 3        \* SCLASS_CUTOFF, scaled: requests from here on are large
HCACHE_MIN == 1     \* CACHE_MIN, scaled
HCACHE_MAX == 1     \* CACHE_MAX, scaled
HWORD_BITS == 4     \* WORD_BITS, scaled: products from 2^HWORD_BITS on overflow
HMAX_ARENAS == 2    \* MAX_ARENAS, scaled
RBITS_PER_LEVEL == 1 \* BITS_PER_LEVEL, scaled
RVA_SIZE == 2       \* va_size(), scaled: the bits of a key the tree reads
RChunkNodes == 2    \* nodes that fit in one chunk of a tree's bump (CHUNK_SIZE, scaled)
USIZE_BITS == 2     \* usize::BITS of a bitmap word, scaled
CHUNK_SIZEOF == 1   \* size_of::<Chunk>(), scaled
CHUNK_ALIGNOF == 1  \* align_of::<Chunk>(), scaled
HARENA_BMS == WORD * HMAX_ARENAS

NPages == 2         \* pages of address space the OS can hand out
MaxLive == 3        \* allocations the user holds at a time
MaxReq == 3         \* largest request size
MaxWrap == 1        \* how far a bitmap's used count may wrap below zero
MaxHeld == 1        \* blocks held at a time by the thread that reads and writes them
MaxNodes == 5       \* nodes an RTree's bump hands out before the calls stop
RingN == 3          \* N of the Ring<T, N> driven on its own
BmWords == 2        \* words in the store of the Bitmap driven on its own
MaxListNodes == 4   \* list nodes driven on their own
BumpSpace == 5      \* pages of address space the OS maps a Bump's chunks in
MaxDirThreads == 3  \* threads that acquire an arena, driven on their own

NULL == 0           \* the null pointer (of any pointee type)
SENTINEL == 1       \* NonNull::<u8>::dangling()
FALLBACK == 0 - 3   \* the arena of FALLBACK, which is in no directory slot

ListNodes == 1 .. MaxListNodes
Threads == {1, 2}
\* the threads that call the allocating entry points; the others only free
\* what was handed over to them, and exit
Allocators == {1}
Classes == 0 .. (HNCLASSES - 1)
Arenas == 0 .. (HMAX_ARENAS - 1)
PageAddrs == { PageSize * i : i \in 1 .. NPages }
Aligns == {1, 2}

NoArena == 0 - 1
NoOwner == [kind |-> "none", ref |-> NULL, class |-> NoClass]

SetMin(S) == CHOOSE x \in S : \A y \in S : x <= y

\* math::align_down / align_up with align = page_size()
page_align_down(v) == (v \div PageSize) * PageSize
page_align(v) == ((v + PageSize - 1) \div PageSize) * PageSize

\* CLASSES[idx].0 for the classes kept
sc_size(c) == (c + 1) * HQUANTUM

\* class_for on the scaled table: only the tiny path exists
h_class_for(size) ==
  IF size = 0 \/ size >= HCUTOFF THEN NoClass
  ELSE (size - 1) \div HQUANTUM

RECURSIVE gcd(_, _)
gcd(a, b) == IF b = 0 THEN a ELSE gcd(b, a % b)

\* generate_pages: pages[i]
pages_for(c) == (sc_size(c) \div gcd(PageSize, sc_size(c))) * PageSize

clamp(v, lo, hi) == IF v < lo THEN lo ELSE IF v > hi THEN hi ELSE v

\* generate_cache_sizes: caches[i]
cache_for(c) == clamp(HCUTOFF \div sc_size(c), HCACHE_MIN, HCACHE_MAX) * sc_size(c)

\* The same tables with the constants of the 64-bit build.
\* page_size(): what sysconf(_SC_PAGESIZE) reports on the supported targets
PageSizes == {4096, 16384, 65536}

\* a slab of one page for every class
PAGES_one_page(ps, i) == ps

\* generate_pages with page size ps: the slab size of class i
PAGES(ps, i) == (CLASSES(i) \div gcd(ps, CLASSES(i))) * ps

CACHE_MIN == 8
CACHE_MAX == 200

\* generate_cache_sizes: the CacheSize of class i
CACHE_SIZES(i) ==
  clamp(SCLASS_CUTOFF \div CLASSES(i), CACHE_MIN, CACHE_MAX) * CLASSES(i)

\* TCache::get_range and construct_store: the pointer slots of the store
\* behind the ring of class i
ring_capacity(i) == (CACHE_SIZES(i) * WORD) \div WORD

\* TCache::get_range(offset, class_idx), in pointer slots rather than bytes
get_range(offset, c) == [start |-> offset, end |-> offset + cache_for(c)]

\* TCache::new_caches: the first slot of class c's store in the backing extent
store_base(c) == get_range(0, c).start

\* TCache::construct_store: the number of slots of class c's store
store_len(c) == get_range(0, c).end - get_range(0, c).start

StoreSlots == 0 .. (SetMin({ n \in 1 .. (HCUTOFF * HCACHE_MAX * HNCLASSES + 1) :
                              \A c \in Classes : store_base(c) + store_len(c) <= n }) - 1)

\* Option::None of a bit index
NoSlot == 0 - 1

\* what an operation hands back: success, the heap after it, its value
Res(ok, h, val) == [ok |-> ok, h |-> h, val |-> val]

(***************************************************************************)
(* The OS: Extent::new maps whole pages, dropping an Extent unmaps them    *)
(***************************************************************************)
PagesOf(base, len) == { base + k * PageSize : k \in 0 .. ((len \div PageSize) - 1) }

\* the base of a fresh mapping of len bytes, NULL when the address space is used up
os_map(m, len) ==
  LET C == { b \in PageAddrs : PagesOf(b, len) \subseteq (PageAddrs \ m) }
  IN  IF C = {} THEN NULL ELSE SetMin(C)

(***************************************************************************)
(* basealloc-list: intrusive links between slabs (S is the slab store)     *)
(***************************************************************************)
insert_before(S, item, at) ==
  LET prev_ptr == S[at].prev
      S1 == [S EXCEPT ![item].next = at, ![item].prev = prev_ptr]
      S2 == IF prev_ptr # NULL THEN [S1 EXCEPT ![prev_ptr].next = item] ELSE S1
  IN  [S2 EXCEPT ![at].prev = item]

insert_after(S, item, at) ==
  LET next_ptr == S[at].next
      S1 == [S EXCEPT ![item].prev = at, ![item].next = next_ptr]
      S2 == IF next_ptr # NULL THEN [S1 EXCEPT ![next_ptr].prev = item] ELSE S1
  IN  [S2 EXCEPT ![at].next = item]

\* a remove that leaves the prev of the node after item as it was
remove_keeps_back_link(S, item) ==
  LET prev_ptr == S[item].prev
      next_ptr == S[item].next
      S1 == IF prev_ptr # NULL THEN [S EXCEPT ![prev_ptr].next = next_ptr] ELSE S
  IN  [S1 EXCEPT ![item].next = NULL, ![item].prev = NULL]

remove(S, item) ==
  LET prev_ptr == S[item].prev
      next_ptr == S[item].next
      S1 == IF prev_ptr # NULL THEN [S EXCEPT ![prev_ptr].next = next_ptr] ELSE S
      S2 == IF next_ptr # NULL THEN [S1 EXCEPT ![next_ptr].prev = prev_ptr] ELSE S1
  IN  [S2 EXCEPT ![item].next = NULL, ![item].prev = NULL]

(***************************************************************************)
(* basealloc-bitmap: bits is the set of set bits, used the counter.  A     *)
(* used count below zero stands for the wrapped value 2^64 + used.         *)
(***************************************************************************)
find_fc(bits, nbits, start) ==
  IF start >= nbits THEN NoSlot
  ELSE LET hi == { i \in start .. (nbits - 1) : i \notin bits }
           lo == { i \in 0 .. (start - 1) : i \notin bits }
       IN  IF hi # {} THEN SetMin(hi)
           ELSE IF start = 0 \/ lo = {} THEN NoSlot
           ELSE SetMin(lo)

is_clear(used) == used = 0

(***************************************************************************)
(* Results are threaded the way the code threads them: Try is the `?`      *)
(* operator (stop at an Err), OrElse runs a fallback after an Err, Match   *)
(* takes both arms, With names an intermediate value.                      *)
(***************************************************************************)
Try(r, K(_)) == IF r.ok THEN K(r) ELSE r

OrElse(r, K(_)) == IF r.ok THEN r ELSE K(r)

Match(r, Ok(_), Err(_)) == IF r.ok THEN Ok(r) ELSE Err(r)

With(v, K(_)) == K(v)

(***************************************************************************)
(* lookup.rs: ArenaMap and ExtentTree, page-keyed maps over an RTree       *)
(***************************************************************************)
page_range(base, len) ==
  [start |-> page_align_down(base), last_page |-> page_align_down(base + len - 1)]

\* range_execute with RTree::insert: stops at the first occupied key and
\* keeps what it stored before it
RECURSIVE range_insert(_, _, _, _, _)
range_insert(m, current, stop, val, none) ==
  IF current > stop THEN [ok |-> TRUE, m |-> m]
  ELSE IF m[current] # none THEN [ok |-> FALSE, m |-> m]
  ELSE range_insert([m EXCEPT ![current] = val], current + PageSize, stop, val, none)

\* range_execute with RTree::remove: fails when no key of the range was present
range_remove(m, start, stop, none) ==
  [ok |-> \E k \in DOMAIN m : start <= k /\ k <= stop /\ m[k] # none,
   m  |-> [k \in DOMAIN m |-> IF start <= k /\ k <= stop THEN none ELSE m[k]]]

\* a lookup that does not align the address down to its page
tree_lookup_unaligned(m, addr, none) ==
  IF addr \in DOMAIN m THEN m[addr] ELSE none

tree_lookup(m, addr, none) ==
  IF page_align_down(addr) \in DOMAIN m THEN m[page_align_down(addr)] ELSE none

ExtentTree_register(h, a, base, len, info) ==
  IF len = 0 THEN Res(TRUE, h, NULL)
  ELSE With(range_insert(h.etree[a], page_range(base, len).start,
                         page_range(base, len).last_page, info, NoOwner),
            LAMBDA r : Res(r.ok, [h EXCEPT !.etree[a] = r.m], NULL))

ExtentTree_unregister(h, a, base, len) ==
  IF len = 0 THEN Res(TRUE, h, NULL)
  ELSE With(range_remove(h.etree[a], page_range(base, len).start,
                         page_range(base, len).last_page, NoOwner),
            LAMBDA r : Res(r.ok, [h EXCEPT !.etree[a] = r.m], NULL))

ExtentTree_lookup(h, a, addr) == tree_lookup(h.etree[a], addr, NoOwner)

ArenaMap_associate(h, base, len, id) ==
  IF len = 0 THEN Res(TRUE, h, NULL)
  ELSE With(range_insert(h.amap, page_range(base, len).start,
                         page_range(base, len).last_page, id, NoArena),
            LAMBDA r : Res(r.ok, [h EXCEPT !.amap = r.m], NULL))

ArenaMap_detach(h, base, len) ==
  IF len = 0 THEN Res(TRUE, h, NULL)
  ELSE With(range_remove(h.amap, page_range(base, len).start,
                         page_range(base, len).last_page, NoArena),
            LAMBDA r : Res(r.ok, [h EXCEPT !.amap = r.m], NULL))

ArenaMap_lookup(h, addr) == tree_lookup(h.amap, addr, NoArena)

(***************************************************************************)
(* static_.rs: the global LOOKUP tree, page address -> Entry.  An Entry is *)
(* written like an OwnerInfo: kind "class" (ClassEntry) or "large"; the    *)
(* Option::None of a lookup is NoOwner.  The range of an extent is         *)
(* extent_range: start = page_align_down(base), end = page_align(base+len).*)
(***************************************************************************)
rollback_range(m, start, upto) ==
  [k \in DOMAIN m |-> IF start <= k /\ k < upto /\ (k - start) % PageSize = 0
                      THEN NoOwner ELSE m[k]]

\* a register_entries that returns the error without undoing its inserts
RECURSIVE register_entries_keeps_inserted(_, _, _, _, _)
register_entries_keeps_inserted(m, start, addr, end, entry) ==
  IF addr >= end THEN [ok |-> TRUE, m |-> m]
  ELSE IF m[addr] # NoOwner THEN [ok |-> FALSE, m |-> m]
  ELSE register_entries_keeps_inserted([m EXCEPT ![addr] = entry], start,
                                       addr + PageSize, end, entry)

RECURSIVE register_entries(_, _, _, _, _)
register_entries(m, start, addr, end, entry) ==
  IF addr >= end THEN [ok |-> TRUE, m |-> m]
  ELSE IF m[addr] # NoOwner THEN [ok |-> FALSE, m |-> rollback_range(m, start, addr)]
  ELSE register_entries([m EXCEPT ![addr] = entry], start, addr + PageSize, end, entry)

\* register_sc and register_large differ in the Entry they store
static_register(h, base, len, entry) ==
  IF len = 0 THEN Res(TRUE, h, NULL)
  ELSE With(register_entries(h.LOOKUP, page_align_down(base), page_align_down(base),
                             page_align(base + len), entry),
            LAMBDA r : Res(r.ok, [h EXCEPT !.LOOKUP = r.m], NULL))

unregister_range(h, base, len) ==
  IF len = 0 THEN Res(TRUE, h, NULL)
  ELSE With(range_remove(h.LOOKUP, page_align_down(base),
                         page_align(base + len) - PageSize, NoOwner),
            LAMBDA r : Res(r.ok, [h EXCEPT !.LOOKUP = r.m], NULL))

static_lookup(h, at) == tree_lookup(h.LOOKUP, at, NoOwner)

(***************************************************************************)
(* slab.rs.  A slab is named by its position in the slab store.            *)
(***************************************************************************)
\* a region count that is one too many
slab_regions_one_more(sl) == sl.len \div sc_size(sl.class) + 1

slab_regions(sl) == sl.len \div sc_size(sl.class)

\* Slab::register
Slab_register(h, slab, a, c) ==
  Try(ExtentTree_register(h, a, h.slabs[slab].base, h.slabs[slab].len,
                          [kind |-> "slab", ref |-> slab, class |-> c]),
      LAMBDA r : ArenaMap_associate(r.h, h.slabs[slab].base, h.slabs[slab].len, a))

\* Slab::new, from the point where Extent::new has returned base
Slab_write(h, a, c, size, base) ==
  IF base = NULL THEN Res(FALSE, h, NULL)
  ELSE Try(Slab_register(
             [h EXCEPT !.slabs = Append(@, [arena |-> a, class |-> c, base |-> base,
                                            len |-> size, active |-> FALSE,
                                            next |-> NULL, prev |-> NULL,
                                            bits |-> {}, used |-> 0, last |-> 0]),
                       !.mapped = @ \cup PagesOf(base, size)],
             Len(h.slabs) + 1, a, c),
           LAMBDA r : Res(TRUE, r.h, Len(h.slabs) + 1))

Slab_new(h, a, c) == Slab_write(h, a, c, pages_for(c), os_map(h.mapped, pages_for(c)))

ptr_at(sl, index) == sl.base + index * sc_size(sl.class)

\* a has_ptr that takes the end of the extent for a part of it
has_ptr_closed_end(sl, ptr) == ptr >= sl.base /\ ptr <= sl.base + sl.len

has_ptr(sl, ptr) == ptr >= sl.base /\ ptr < sl.base + sl.len

index_for(sl, ptr) == (ptr - sl.base) \div sc_size(sl.class)

\* Extent::is_activated: the extent is committed.  A slab's extent is made
\* with SysOption::Reserve, Slab::allocate calls activate on it when it is
\* not activated, Bin::retire_slab calls deactivate
Extent_is_activated(sl) == sl.active

\* a Slab::allocate that serves from the extent as it finds it
Slab_take_as_found(h, s, slot) ==
  IF slot = NoSlot THEN Res(FALSE, h, NULL)
  ELSE Res(TRUE,
           [h EXCEPT !.slabs[s].bits = @ \cup {slot},
                     !.slabs[s].used = @ + 1,
                     !.slabs[s].last = slot % slab_regions(h.slabs[s])],
           ptr_at(h.slabs[s], slot))

\* Slab::allocate, from the point where find_fc has returned slot; the
\* extent is activated before the search
Slab_take(h, s, slot) ==
  IF slot = NoSlot THEN Res(FALSE, [h EXCEPT !.slabs[s].active = TRUE], NULL)
  ELSE Res(TRUE,
           [h EXCEPT !.slabs[s].active = TRUE,
                     !.slabs[s].bits = @ \cup {slot},
                     !.slabs[s].used = @ + 1,
                     !.slabs[s].last = slot % slab_regions(h.slabs[s])],
           ptr_at(h.slabs[s], slot))

Slab_allocate(h, s) ==
  Slab_take(h, s, find_fc(h.slabs[s].bits, slab_regions(h.slabs[s]), h.slabs[s].last))

\* a Slab::deallocate that leaves the cursor where it was
Slab_deallocate_keeps_cursor(h, s, ptr) ==
  IF ~has_ptr(h.slabs[s], ptr) THEN Res(FALSE, h, NULL)
  ELSE Res(TRUE,
           [h EXCEPT !.slabs[s].bits = @ \ {index_for(h.slabs[s], ptr)},
                     !.slabs[s].used = @ - 1],
           NULL)

Slab_deallocate(h, s, ptr) ==
  IF ~has_ptr(h.slabs[s], ptr) THEN Res(FALSE, h, NULL)
  ELSE Res(TRUE,
           [h EXCEPT !.slabs[s].bits = @ \ {index_for(h.slabs[s], ptr)},
                     !.slabs[s].used = @ - 1,
                     !.slabs[s].last = index_for(h.slabs[s], ptr) % slab_regions(h.slabs[s])],
           NULL)

Slab_is_empty(h, s) == is_clear(h.slabs[s].used)

(***************************************************************************)
(* bin.rs                                                                  *)
(***************************************************************************)
alloc_fast(h, a, c) ==
  IF h.bins[a][c].active_head = NULL THEN Res(FALSE, h, NULL)
  ELSE Slab_allocate(h, h.bins[a][c].active_head)

\* the tail of pop_free and of push_new: slab becomes the head of the active list
make_active(h, S, a, c, slab) ==
  [h EXCEPT !.slabs = IF h.bins[a][c].active_head # NULL
                      THEN insert_before(S, slab, h.bins[a][c].active_head)
                      ELSE S,
            !.bins[a][c].active_head = slab,
            !.bins[a][c].active_tail = IF @ = NULL THEN slab ELSE @]

pop_free(h, a, c) ==
  IF h.bins[a][c].free_head = NULL THEN Res(FALSE, h, NULL)
  ELSE With(h.slabs[h.bins[a][c].free_head].next,
            LAMBDA next :
              Res(TRUE,
                  make_active([h EXCEPT !.bins[a][c].free_head = next],
                              IF next # NULL
                              THEN remove(h.slabs, h.bins[a][c].free_head)
                              ELSE h.slabs,
                              a, c, h.bins[a][c].free_head),
                  h.bins[a][c].free_head))

\* a push_new that takes the active head before the slab exists and does not
\* put it back when Slab::new fails
push_new_head_taken(h, a, c) ==
  Match(Slab_new(h, a, c),
        LAMBDA r : Res(TRUE, make_active(r.h, r.h.slabs, a, c, r.val), r.val),
        LAMBDA r : Res(FALSE, [r.h EXCEPT !.bins[a][c].active_head = NULL], NULL))

push_new(h, a, c) ==
  Try(Slab_new(h, a, c),
      LAMBDA r : Res(TRUE, make_active(r.h, r.h.slabs, a, c, r.val), r.val))

\* List::remove runs first, so the links read afterwards are already None
retire_slab(h, a, c, s) ==
  With(remove(h.slabs, s),
       LAMBDA S1 :
         Res(TRUE,
             [h EXCEPT !.slabs = IF h.bins[a][c].free_head # NULL
                                 THEN insert_before([S1 EXCEPT ![s].active = FALSE],
                                                    s, h.bins[a][c].free_head)
                                 ELSE [S1 EXCEPT ![s].active = FALSE],
                       !.bins[a][c].active_head = IF s = @ THEN S1[s].next ELSE @,
                       !.bins[a][c].active_tail = IF s = @ THEN S1[s].prev ELSE @,
                       !.bins[a][c].free_head = s],
             NULL))

Bin_allocate(h, a, c) ==
  OrElse(alloc_fast(h, a, c),
         LAMBDA r1 :
           Match(pop_free(r1.h, a, c),
                 LAMBDA r2 : Slab_allocate(r2.h, r2.val),
                 LAMBDA r2 : Try(push_new(r2.h, a, c),
                                 LAMBDA r3 : Slab_allocate(r3.h, r3.val))))

Bin_deallocate(h, a, c, ptr, s) ==
  Try(Slab_deallocate(h, s, ptr),
      LAMBDA r : IF Slab_is_empty(r.h, s) THEN retire_slab(r.h, a, c, s) ELSE r)

(***************************************************************************)
(* arena.rs.  A large Extent is named by its base address.                 *)
(***************************************************************************)
Arena_allocate(h, a, sc) == Bin_allocate(h, a, sc)

\* Arena::allocate_large, from the point where Extent::new has returned ptr
large_write(h, a, pga_size, ptr) ==
  IF ptr = NULL THEN Res(FALSE, h, NULL)
  ELSE Try(ExtentTree_register(
             [h EXCEPT !.larges = @ \cup {[base |-> ptr, len |-> pga_size]},
                       !.mapped = @ \cup PagesOf(ptr, pga_size)],
             a, ptr, pga_size, [kind |-> "extent", ref |-> ptr, class |-> NoClass]),
           LAMBDA r1 :
             Try(ArenaMap_associate(r1.h, ptr, pga_size, a),
                 LAMBDA r2 : Res(TRUE, r2.h, ptr)))

Arena_allocate_large(h, a, size) ==
  large_write(h, a, page_align(size), os_map(h.mapped, page_align(size)))

extent_at(h, base) == CHOOSE e \in h.larges : e.base = base

\* drop_in_place of the Extent: its pages go back to the OS, which hands
\* them out zeroed the next time
extent_drop(h, e) ==
  [h EXCEPT !.larges = @ \ {e}, !.mapped = @ \ PagesOf(e.base, e.len),
            !.mem = [a \in DOMAIN @ |-> IF e.base <= a /\ a < e.base + e.len
                                        THEN 0 ELSE @[a]]]

Arena_deallocate_large(h, a, extent) ==
  Try(ExtentTree_unregister(h, a, extent_at(h, extent).base, extent_at(h, extent).len),
      LAMBDA r1 :
        Try(ArenaMap_detach(r1.h, extent_at(h, extent).base, extent_at(h, extent).len),
            LAMBDA r2 : Res(TRUE, extent_drop(r2.h, extent_at(h, extent)), NULL)))

Arena_deallocate(h, a, ptr) ==
  With(ExtentTree_lookup(h, a, ptr),
       LAMBDA info :
         IF info.kind = "none" THEN Res(FALSE, h, NULL)
         ELSE IF info.kind = "extent" THEN Arena_deallocate_large(h, a, info.ref)
         ELSE Try(Bin_deallocate(h, a, info.class, ptr, info.ref),
                  LAMBDA r :
                    IF ~Slab_is_empty(h, info.ref) /\ Slab_is_empty(r.h, info.ref)
                    THEN Res(TRUE,
                             ExtentTree_unregister(r.h, a, h.slabs[info.ref].base,
                                                   h.slabs[info.ref].len).h,
                             NULL)
                    ELSE r))

(***************************************************************************)
(* The pointer lookup of dealloc: arena map, then that arena's extent tree *)
(***************************************************************************)
lookup(h, ptr) ==
  IF ArenaMap_lookup(h, ptr) = NoArena
  THEN [kind |-> "none", arena |-> NoArena, ref |-> NULL, class |-> NoClass]
  ELSE With(ExtentTree_lookup(h, ArenaMap_lookup(h, ptr), ptr),
            LAMBDA info : [kind |-> info.kind, arena |-> ArenaMap_lookup(h, ptr),
                           ref |-> info.ref, class |-> info.class])

(***************************************************************************)
(* basealloc-ring over the store slice of a cache bin, and tcache.rs       *)
(***************************************************************************)
next_idx(current, n) == (current + 1) % n

Ring_is_full(h, t, c) == h.tc[t].ring[c].len = store_len(c)

Ring_push(h, t, c, val) ==
  IF Ring_is_full(h, t, c) THEN Res(FALSE, h, NULL)
  ELSE Res(TRUE,
           [h EXCEPT !.tc[t].store[store_base(c) + h.tc[t].ring[c].head] = val,
                     !.tc[t].ring[c].head = next_idx(@, store_len(c)),
                     !.tc[t].ring[c].len = @ + 1],
           NULL)

Ring_pop(h, t, c) ==
  IF h.tc[t].ring[c].len = 0 THEN Res(FALSE, h, NULL)
  ELSE Res(TRUE,
           [h EXCEPT !.tc[t].ring[c].tail = next_idx(@, store_len(c)),
                     !.tc[t].ring[c].len = @ - 1],
           h.tc[t].store[store_base(c) + h.tc[t].ring[c].tail])

\* TCache::new: a zeroed backing extent and NSCLASSES empty rings
TCache_new ==
  [init  |-> TRUE,
   store |-> [i \in StoreSlots |-> NULL],
   ring  |-> [c \in Classes |-> [head |-> 0, tail |-> 0, len |-> 0]]]

\* the thread-local slot before its first use and after its destructor ran
TCache_none == [TCache_new EXCEPT !.init = FALSE]

acquire_tcache(h, t) ==
  IF h.tc[t].init THEN h ELSE [h EXCEPT !.tc[t] = TCache_new]

RECURSIVE refill_loop(_, _, _, _, _)
refill_loop(h, t, a, sc, n) ==
  IF n = 0 THEN Res(TRUE, h, NULL)
  ELSE Try(Arena_allocate(h, a, sc),
           LAMBDA r :
             Match(Ring_push(r.h, t, sc, r.val),
                   LAMBDA p : refill_loop(p.h, t, a, sc, n - 1),
                   LAMBDA p : Res(TRUE, p.h, NULL)))

Min(x, y) == IF x <= y THEN x ELSE y
Max(x, y) == IF x >= y THEN x ELSE y

refill_cache(h, t, a, sc) ==
  refill_loop(h, t, a, sc, Min(cache_for(sc), store_len(sc) - h.tc[t].ring[sc].len))

TCache_allocate(h, t, a, sc) ==
  OrElse(Ring_pop(h, t, sc),
         LAMBDA r0 :
           Try(refill_cache(r0.h, t, a, sc),
               LAMBDA r1 : Ring_pop(r1.h, t, sc)))

RECURSIVE flush_loop(_, _, _, _, _)
flush_loop(h, t, a, sc, n) ==
  IF n = 0 THEN Res(TRUE, h, NULL)
  ELSE Match(Ring_pop(h, t, sc),
             LAMBDA p :
               IF lookup(p.h, p.val).kind # "slab"
               THEN flush_loop(p.h, t, a, sc, n - 1)
               ELSE Try(Arena_deallocate(p.h, a, p.val),
                        LAMBDA d : flush_loop(d.h, t, a, sc, n - 1)),
             LAMBDA p : Res(TRUE, p.h, NULL))

flush_cache(h, t, a, sc) == flush_loop(h, t, a, sc, h.tc[t].ring[sc].len \div 2)

TCache_deallocate(h, t, a, ptr, sc) ==
  Try(IF Ring_is_full(h, t, sc) THEN flush_cache(h, t, a, sc) ELSE Res(TRUE, h, NULL),
      LAMBDA f :
        OrElse(Ring_push(f.h, t, sc, ptr),
               LAMBDA p :
                 IF lookup(p.h, ptr).kind # "slab" THEN Res(TRUE, p.h, NULL)
                 ELSE Arena_deallocate(p.h, a, ptr)))

(***************************************************************************)
(* static_.rs: the arena directory                                         *)
(***************************************************************************)
static_acquire_arena(h) ==
  With(find_fc(h.arena_bm, HARENA_BMS, h.bm_last),
       LAMBDA idx :
         IF idx = NoSlot THEN Res(FALSE, h, NoArena)
         ELSE Res(TRUE,
                  [h EXCEPT !.arena_bm = @ \cup {idx},
                            !.bm_last = (idx + 1) % HARENA_BMS],
                  idx))

\* THREAD_ARENA is filled on the thread's first access
acquire_this_arena(h, t) ==
  IF h.thread_arena[t] # NoArena THEN Res(TRUE, h, h.thread_arena[t])
  ELSE With(static_acquire_arena(h),
            LAMBDA r : Res(r.ok, [r.h EXCEPT !.thread_arena[t] = r.val], r.val))

(***************************************************************************)
(* src/lib.rs: BaseAlloc                                                   *)
(***************************************************************************)
is_invalid(ptr) == ptr = NULL \/ ptr = SENTINEL

acquire_arena(h, t) == acquire_this_arena(h, t)

\* Option<usize>, None being 0: no class and no extent has size 0
sizeof(h, ptr) ==
  IF is_invalid(ptr) THEN 0
  ELSE With(lookup(h, ptr),
            LAMBDA entry :
              IF entry.kind = "none" THEN 0
              ELSE IF entry.kind = "slab" THEN sc_size(entry.class)
              ELSE extent_at(h, entry.ref).len)

alloc(h, t, size, align) ==
  IF h_class_for(size) # NoClass
  THEN With(acquire_arena(acquire_tcache(h, t), t),
            LAMBDA ar :
              OrElse(TCache_allocate(ar.h, t, ar.val, h_class_for(size)),
                     LAMBDA r : Arena_allocate(r.h, ar.val, h_class_for(size))))
  ELSE With(acquire_arena(h, t),
            LAMBDA ar : Arena_allocate_large(ar.h, ar.val, size))

\* what dealloc does with a pointer that is neither null nor the sentinel
dealloc_entry(h, t, ptr, entry) ==
  IF entry.kind = "none" THEN h
  ELSE IF entry.kind = "slab"
       THEN With(acquire_arena(acquire_tcache(h, t), t),
                 LAMBDA ar :
                   Match(TCache_deallocate(ar.h, t, ar.val, ptr, entry.class),
                         LAMBDA r : r.h,
                         LAMBDA r : Arena_deallocate(r.h, ar.val, ptr).h))
  ELSE With(acquire_arena(h, t),
            LAMBDA ar : Arena_deallocate_large(ar.h, ar.val, entry.ref).h)

dealloc_acquire_first(h, t, ptr) ==
  IF is_invalid(ptr) THEN acquire_arena(acquire_tcache(h, t), t).h
  ELSE dealloc_entry(h, t, ptr, lookup(h, ptr))

dealloc(h, t, ptr) ==
  IF is_invalid(ptr) THEN h
  ELSE dealloc_entry(h, t, ptr, lookup(h, ptr))

(***************************************************************************)
(* ffi/src/lib.rs: the C entry points                                      *)
(***************************************************************************)
malloc(h, t, size) ==
  IF size = 0 THEN Res(TRUE, h, SENTINEL) ELSE alloc(h, t, size, 1)

aligned_alloc(h, t, align, size) ==
  IF size = 0 THEN Res(TRUE, h, SENTINEL) ELSE alloc(h, t, size, align)

free(h, t, ptr) ==
  IF is_invalid(ptr) THEN h
  ELSE IF sizeof(h, ptr) = 0 THEN h
  ELSE dealloc(h, t, ptr)

\* what a call hands back when it touched an address that is not mapped
\* (the process is killed)
Fault == 0 - 2

\* ptr::write_bytes(ptr, val, count)
write_bytes(h, ptr, val, count) ==
  IF \E a \in ptr .. (ptr + count - 1) : page_align_down(a) \notin h.mapped
  THEN Res(FALSE, h, Fault)
  ELSE Res(TRUE,
           [h EXCEPT !.mem = [a \in DOMAIN @ |-> IF ptr <= a /\ a < ptr + count
                                                 THEN val ELSE @[a]]],
           ptr)

\* ptr::copy_nonoverlapping(src, dst, count).  When the two ranges overlap
\* the result is not defined: bytewise is the choice between a copy byte by
\* byte from the low end and a copy of the bytes as they were.
copy_nonoverlapping(h, src, dst, count, bytewise) ==
  IF \E a \in (src .. (src + count - 1)) \cup (dst .. (dst + count - 1)) :
        page_align_down(a) \notin h.mapped
  THEN Res(FALSE, h, Fault)
  ELSE Res(TRUE,
           [h EXCEPT !.mem =
              [a \in DOMAIN @ |->
                 IF dst <= a /\ a < dst + count
                 THEN IF bytewise /\ src < dst /\ dst < src + count
                      THEN @[src + ((a - dst) % (dst - src))]
                      ELSE @[src + (a - dst)]
                 ELSE @[a]]],
           dst)

\* a calloc that hands the block out as the allocator returned it
calloc_unwritten(h, t, num, size) ==
  IF num * size >= 2 ^ HWORD_BITS THEN Res(FALSE, h, NULL)
  ELSE IF num * size = 0 THEN Res(TRUE, h, SENTINEL)
  ELSE IF num * size >= 2 ^ (HWORD_BITS - 1) THEN Res(FALSE, h, NULL)
  ELSE alloc(h, t, num * size, 1)

\* checked_mul fails from 2^HWORD_BITS on, Layout::from_size_align above
\* isize::MAX
calloc(h, t, num, size) ==
  IF num * size >= 2 ^ HWORD_BITS THEN Res(FALSE, h, NULL)
  ELSE IF num * size = 0 THEN Res(TRUE, h, SENTINEL)
  ELSE IF num * size >= 2 ^ (HWORD_BITS - 1) THEN Res(FALSE, h, NULL)
  ELSE With(alloc(h, t, num * size, 1),
            LAMBDA r : IF r.val = NULL THEN Res(FALSE, r.h, NULL)
                       ELSE write_bytes(r.h, r.val, 0, num * size))

\* a realloc that frees the old block without copying it
realloc_uncopied(h, t, ptr, size, bytewise) ==
  IF is_invalid(ptr) THEN malloc(h, t, size)
  ELSE IF size = 0 THEN Res(TRUE, free(h, t, ptr), SENTINEL)
  ELSE IF sizeof(h, ptr) = 0 THEN Res(FALSE, h, NULL)
  ELSE IF size >= 2 ^ (HWORD_BITS - 1) THEN Res(FALSE, h, NULL)
  ELSE With(alloc(h, t, size, 1),
            LAMBDA r : IF r.val = NULL THEN Res(FALSE, r.h, NULL)
                       ELSE Res(TRUE, dealloc(r.h, t, ptr), r.val))

realloc(h, t, ptr, size, bytewise) ==
  IF is_invalid(ptr) THEN malloc(h, t, size)
  ELSE IF size = 0 THEN Res(TRUE, free(h, t, ptr), SENTINEL)
  ELSE IF sizeof(h, ptr) = 0 THEN Res(FALSE, h, NULL)
  ELSE IF size >= 2 ^ (HWORD_BITS - 1) THEN Res(FALSE, h, NULL)
  ELSE With(alloc(h, t, size, 1),
            LAMBDA r :
              IF r.val = NULL THEN Res(FALSE, r.h, NULL)
              ELSE Try(copy_nonoverlapping(r.h, ptr, r.val,
                                           Min(sizeof(h, ptr), size), bytewise),
                       LAMBDA c : Res(TRUE, dealloc(c.h, t, ptr), r.val)))

(***************************************************************************)
(* sync/local.rs: the thread-local destructor drops the TCache in place;   *)
(* TCache has no Drop of its own, so only its backing extent is unmapped   *)
(***************************************************************************)
\* what thread exit would do if it also ran Drop for ArenaGuard
\* (release_arena: directory slot cleared, arena dropped with its slabs)
tls_detor_releasing_arena(h, t) ==
  [h EXCEPT !.tc[t] = TCache_none,
            !.arena_bm = @ \ {h.thread_arena[t]},
            !.mapped = @ \ UNION { PagesOf(h.slabs[i].base, h.slabs[i].len) :
                                     i \in { j \in DOMAIN h.slabs :
                                               h.slabs[j].arena = h.thread_arena[t] } }]

tls_detor(h, t) == [h EXCEPT !.tc[t] = TCache_none]

(***************************************************************************)
(* basealloc-rtree: RNode and RTree over a scaled key space.  A node is    *)
(* its index in the sequence of nodes the tree's bump has handed out; the  *)
(* bump never takes a node back.                                           *)
(***************************************************************************)
RFANOUT == 2 ^ RBITS_PER_LEVEL

RTree_BPL == ilog2(RFANOUT)

RTree_levels == div_ceil(RVA_SIZE, RTree_BPL)

RKeys == 0 .. (2 ^ RVA_SIZE - 1)

RVals == 1 .. 2

RNode_new(value) ==
  [value |-> value, children |-> [i \in 0 .. (RFANOUT - 1) |-> NULL], parent |-> NULL]

RTree_new == [root |-> NULL, nodes |-> << >>, chunks |-> 0]

\* bump.create::<RNode>(), then the write of RNode::new(value): the node
\* comes from the tail chunk, or from a new chunk when the OS grants one
RTree_new_node(h, value, os_ok) ==
  IF Len(h.rtree.nodes) < h.rtree.chunks * RChunkNodes
  THEN Res(TRUE, [h EXCEPT !.rtree.nodes = Append(@, RNode_new(value))],
           Len(h.rtree.nodes) + 1)
  ELSE IF os_ok
  THEN Res(TRUE, [h EXCEPT !.rtree.nodes = Append(@, RNode_new(value)),
                           !.rtree.chunks = @ + 1],
           Len(h.rtree.nodes) + 1)
  ELSE Res(FALSE, h, "Bump")

\* an index that reads the same bits of the key at every level
RTree_index_for_low_bits(key, level) == key % RFANOUT

RTree_index_for(key, level) ==
  (key \div (2 ^ ((RTree_levels - 1 - level) * RTree_BPL))) % RFANOUT

\* compare_exchange_weak may fail although the root is null (weak = "root");
\* the Err arm then wraps the null it read in NonNull::new_unchecked and
\* ensure_leaf reads a child of it
RTree_ensure_root(h, os_ok, weak) ==
  IF h.rtree.root # NULL THEN Res(TRUE, h, h.rtree.root)
  ELSE Try(RTree_new_node(h, NULL, os_ok),
           LAMBDA n :
             IF weak = "root" THEN Res(FALSE, n.h, "Fault")
             ELSE Res(TRUE, [n.h EXCEPT !.rtree.root = n.val], n.val))

\* the new child gets its parent, then the parent's slot gets the child
RTree_link_child(h, parent, idx, child) ==
  [h EXCEPT !.rtree.nodes[child].parent = parent,
            !.rtree.nodes[parent].children[idx] = child]

\* when cas_child fails although the slot is null (weak = "child") the loop
\* runs again and makes another node; the first one stays in the bump
RTree_ensure_child(h, parent, idx, os_ok, weak) ==
  IF h.rtree.nodes[parent].children[idx] # NULL
  THEN Res(TRUE, h, h.rtree.nodes[parent].children[idx])
  ELSE Try(RTree_new_node(h, NULL, os_ok),
           LAMBDA n :
             IF weak = "child"
             THEN Try(RTree_new_node([n.h EXCEPT !.rtree.nodes[n.val].parent = parent],
                                     NULL, os_ok),
                      LAMBDA m : Res(TRUE, RTree_link_child(m.h, parent, idx, m.val), m.val))
             ELSE Res(TRUE, RTree_link_child(n.h, parent, idx, n.val), n.val))

RECURSIVE RTree_descend(_, _, _, _, _, _)
RTree_descend(h, current, key, level, os_ok, weak) ==
  IF level = RTree_levels THEN Res(TRUE, h, current)
  ELSE Try(RTree_ensure_child(h, current, RTree_index_for(key, level), os_ok, weak),
           LAMBDA c : RTree_descend(c.h, c.val, key, level + 1, os_ok, weak))

RTree_ensure_leaf(h, key, os_ok, weak) ==
  Try(RTree_ensure_root(h, os_ok, weak),
      LAMBDA r : RTree_descend(r.h, r.val, key, 0, os_ok, weak))

\* a store that overwrites
RTree_store_over(h, node, val) ==
  Res(TRUE, [h EXCEPT !.rtree.nodes[node].value = val], node)

RTree_store(h, node, val) ==
  IF h.rtree.nodes[node].value # NULL THEN Res(FALSE, h, "AlreadyPresent")
  ELSE Res(TRUE, [h EXCEPT !.rtree.nodes[node].value = val], node)

RTree_insert(h, key, val, os_ok, weak) ==
  Try(RTree_ensure_leaf(h, key, os_ok, weak),
      LAMBDA leaf : RTree_store(leaf.h, leaf.val, val))

RECURSIVE RTree_walk(_, _, _, _)
RTree_walk(t, current, key, level) ==
  IF current = NULL THEN NULL
  ELSE IF level = RTree_levels THEN current
  ELSE RTree_walk(t, t.nodes[current].children[RTree_index_for(key, level)],
                  key, level + 1)

RTree_leaf(h, key) == RTree_walk(h.rtree, h.rtree.root, key, 0)

\* Option<&T>, None being NULL
RTree_lookup(h, key) ==
  IF RTree_leaf(h, key) = NULL THEN NULL
  ELSE h.rtree.nodes[RTree_leaf(h, key)].value

RTree_should_remove_node(h, node) ==
  /\ h.rtree.nodes[node].value = NULL
  /\ \A i \in 0 .. (RFANOUT - 1) : h.rtree.nodes[node].children[i] = NULL

\* the first slot that holds target is cleared
RNode_clear_child(h, parent, target) ==
  With({ i \in 0 .. (RFANOUT - 1) : h.rtree.nodes[parent].children[i] = target },
       LAMBDA hits :
         IF hits = {} THEN h
         ELSE [h EXCEPT !.rtree.nodes[parent].children[SetMin(hits)] = NULL])

RECURSIVE RTree_prune(_, _)
RTree_prune(h, node) ==
  IF ~RTree_should_remove_node(h, node) THEN h
  ELSE IF h.rtree.nodes[node].parent = NULL
  THEN [h EXCEPT !.rtree.root = NULL]
  ELSE RTree_prune(RNode_clear_child(h, h.rtree.nodes[node].parent, node),
                   h.rtree.nodes[node].parent)

\* Option<T>, None being NULL
RTree_remove(h, key) ==
  IF RTree_leaf(h, key) = NULL THEN Res(FALSE, h, NULL)
  ELSE Res(TRUE,
           RTree_prune([h EXCEPT !.rtree.nodes[RTree_leaf(h, key)].value = NULL],
                       RTree_leaf(h, key)),
           h.rtree.nodes[RTree_leaf(h, key)].value)

(***************************************************************************)
(* basealloc-rtree under two callers of one tree (ArenaMap hands out        *)
(* &mut RTree through an UnsafeCell, with no lock): a remove and an insert, *)
(* one step per point at which the other caller can run in between.        *)
(* race.rem is the caller inside remove/prune, race.ins the caller inside   *)
(* insert/ensure_leaf; the bump grants every node.                          *)
(***************************************************************************)
Race_new ==
  [rem |-> [pc |-> "idle", key |-> 0, node |-> NULL],
   ins |-> [pc |-> "idle", key |-> 0, val |-> NULL, cur |-> NULL, level |-> 0,
            new |-> NULL, ok |-> FALSE],
   overlap |-> FALSE]

RaceBusy(pc) == pc \notin {"idle", "done"}

\* remove: leaf(key)?, then value.take()
Race_remove_begin(h, key) ==
  With(RTree_leaf(h, key),
       LAMBDA leaf :
         IF leaf = NULL
         THEN [h EXCEPT !.race.rem = [pc |-> "done", key |-> key, node |-> NULL],
                        !.race.overlap = @ \/ RaceBusy(h.race.ins.pc)]
         ELSE [h EXCEPT !.rtree.nodes[leaf].value = NULL,
                        !.race.rem = [pc |-> "check", key |-> key, node |-> leaf],
                        !.race.overlap = @ \/ RaceBusy(h.race.ins.pc)])

\* prune: should_remove_node(node)
Race_prune_check(h) ==
  IF RTree_should_remove_node(h, h.race.rem.node)
  THEN [h EXCEPT !.race.rem.pc = "clear"]
  ELSE [h EXCEPT !.race.rem.pc = "done"]

\* prune: the parent's slot (or the root) is cleared without a second look
\* at the node
Race_prune_clear(h) ==
  IF h.rtree.nodes[h.race.rem.node].parent = NULL
  THEN [h EXCEPT !.rtree.root = NULL, !.race.rem.pc = "done"]
  ELSE [RNode_clear_child(h, h.rtree.nodes[h.race.rem.node].parent, h.race.rem.node)
          EXCEPT !.race.rem.pc = "check",
                 !.race.rem.node = h.rtree.nodes[h.race.rem.node].parent]

\* ensure_root: root.load, and new_node when it is null
Race_insert_begin(h, key, val) ==
  IF h.rtree.root # NULL
  THEN [h EXCEPT !.race.ins = [pc |-> "child", key |-> key, val |-> val,
                               cur |-> h.rtree.root, level |-> 0, new |-> NULL,
                               ok |-> FALSE],
                 !.race.overlap = @ \/ RaceBusy(h.race.rem.pc)]
  ELSE [h EXCEPT !.rtree.nodes = Append(@, RNode_new(NULL)),
                 !.race.ins = [pc |-> "root_cas", key |-> key, val |-> val,
                               cur |-> NULL, level |-> 0,
                               new |-> Len(h.rtree.nodes) + 1, ok |-> FALSE],
                 !.race.overlap = @ \/ RaceBusy(h.race.rem.pc)]

\* ensure_root: compare_exchange of the root from null to the new node
Race_root_cas(h) ==
  IF h.rtree.root = NULL
  THEN [h EXCEPT !.rtree.root = h.race.ins.new,
                 !.race.ins.cur = h.race.ins.new, !.race.ins.pc = "child"]
  ELSE [h EXCEPT !.race.ins.cur = h.rtree.root, !.race.ins.pc = "child"]

\* after a child has been found or linked: one level down, or the leaf
Race_descend(h, child) ==
  [h EXCEPT !.race.ins.cur = child,
            !.race.ins.level = @ + 1,
            !.race.ins.pc = IF h.race.ins.level + 1 = RTree_levels
                            THEN "store" ELSE "child"]

\* ensure_child: children[idx].load, and new_node with its parent set when
\* the slot is null
Race_child_load(h) ==
  With(h.rtree.nodes[h.race.ins.cur].children[
         RTree_index_for(h.race.ins.key, h.race.ins.level)],
       LAMBDA current :
         IF current # NULL THEN Race_descend(h, current)
         ELSE [h EXCEPT !.rtree.nodes =
                          Append(@, [RNode_new(NULL) EXCEPT !.parent = h.race.ins.cur]),
                        !.race.ins.new = Len(h.rtree.nodes) + 1,
                        !.race.ins.pc = "child_cas"])

\* ensure_child: cas_child(idx, null, new_child); on failure the loop reads
\* the slot again
Race_child_cas(h) ==
  IF h.rtree.nodes[h.race.ins.cur].children[
       RTree_index_for(h.race.ins.key, h.race.ins.level)] = NULL
  THEN Race_descend(
         [h EXCEPT !.rtree.nodes[h.race.ins.cur].children[
                      RTree_index_for(h.race.ins.key, h.race.ins.level)] =
                        h.race.ins.new],
         h.race.ins.new)
  ELSE [h EXCEPT !.race.ins.pc = "child"]

\* insert: Self::store(leaf, val)
Race_store(h) ==
  With(RTree_store(h, h.race.ins.cur, h.race.ins.val),
       LAMBDA r : [r.h EXCEPT !.race.ins.pc = "done", !.race.ins.ok = r.ok])

(***************************************************************************)
(* basealloc-ring: Ring<T, N> with its own buffer                          *)
(***************************************************************************)
RingBuf_new(init) ==
  [buf |-> [i \in 0 .. (RingN - 1) |-> init], head |-> 0, tail |-> 0, len |-> 0]

RingBuf_is_full(h) == h.ring.len = RingN

RingBuf_is_empty(h) == h.ring.len = 0

\* a push that writes over the oldest value when the ring is full
RingBuf_push_over(h, val) ==
  Res(TRUE,
      [h EXCEPT !.ring.buf[h.ring.head] = val,
                !.ring.head = next_idx(@, RingN),
                !.ring.len = IF @ = RingN THEN @ ELSE @ + 1],
      NULL)

\* Err(RingError::Full(val)) carries val
RingBuf_push(h, val) ==
  IF RingBuf_is_full(h) THEN Res(FALSE, h, val)
  ELSE Res(TRUE,
           [h EXCEPT !.ring.buf[h.ring.head] = val,
                     !.ring.head = next_idx(@, RingN),
                     !.ring.len = @ + 1],
           NULL)

\* a pop that takes the value pushed last
RingBuf_pop_newest(h) ==
  IF RingBuf_is_empty(h) THEN Res(FALSE, h, NULL)
  ELSE Res(TRUE,
           [h EXCEPT !.ring.head = (@ + RingN - 1) % RingN,
                     !.ring.len = @ - 1],
           h.ring.buf[(h.ring.head + RingN - 1) % RingN])

RingBuf_pop(h) ==
  IF RingBuf_is_empty(h) THEN Res(FALSE, h, NULL)
  ELSE Res(TRUE,
           [h EXCEPT !.ring.tail = next_idx(@, RingN),
                     !.ring.len = @ - 1],
           h.ring.buf[h.ring.tail])

(***************************************************************************)
(* basealloc-bitmap, word by word.  A word is the set of the offsets of    *)
(* its set bits: & is the intersection, v ^ usize::MAX the complement,     *)
(* trailing_zeros the least offset.  used is a word of HWORD_BITS bits.    *)
(***************************************************************************)
WordAll == 0 .. (USIZE_BITS - 1)

word_index(bit) == bit \div USIZE_BITS

bit_index(bit) == bit % USIZE_BITS

\* usize::MAX << start_bit
mask_from(start_bit) == { o \in WordAll : o >= start_bit }

Bitmap_available == BmWords * USIZE_BITS

\* Bitmap::zero over a store of BmWords words (bits <= available)
Bitmap_zero(bits) ==
  [words |-> [w \in 0 .. (BmWords - 1) |-> {}], bits |-> bits, used |-> 0]

\* Bitmap::one: set_all fills the whole words below bits and the low
\* bits % USIZE_BITS bits of the next one
Bitmap_one(bits) ==
  [words |-> [w \in 0 .. (BmWords - 1) |->
                IF w < bits \div USIZE_BITS THEN WordAll
                ELSE IF w = bits \div USIZE_BITS /\ bits % USIZE_BITS > 0
                THEN { o \in WordAll : o < bits % USIZE_BITS }
                ELSE {}],
   bits |-> bits, used |-> bits]

\* the bitmap after the call; an index at or above bits is OutOfBounds
Bitmap_set(b, index) ==
  IF index >= b.bits THEN b
  ELSE [b EXCEPT !.words[word_index(index)] = @ \cup {bit_index(index)},
                 !.used = (@ + 1) % (2 ^ HWORD_BITS)]

Bitmap_clear(b, index) ==
  IF index >= b.bits THEN b
  ELSE [b EXCEPT !.words[word_index(index)] = @ \ {bit_index(index)},
                 !.used = (@ + 2 ^ HWORD_BITS - 1) % (2 ^ HWORD_BITS)]

Bitmap_get(b, index) == bit_index(index) \in b.words[word_index(index)]

\* fs: the transform is the identity (find_fs); otherwise v ^ usize::MAX
RECURSIVE Bitmap_iter_range(_, _, _, _, _, _, _)
Bitmap_iter_range(b, idx, from_word, to_word, start_mask, end_mask, fs) ==
  IF idx > to_word \/ idx >= BmWords THEN NoSlot
  ELSE With((IF fs THEN b.words[idx] ELSE WordAll \ b.words[idx])
              \cap (IF idx = from_word THEN start_mask
                    ELSE IF idx = to_word THEN end_mask ELSE WordAll),
            LAMBDA masked :
              IF masked # {} /\ idx * USIZE_BITS + SetMin(masked) < b.bits
              THEN idx * USIZE_BITS + SetMin(masked)
              ELSE Bitmap_iter_range(b, idx + 1, from_word, to_word,
                                     start_mask, end_mask, fs))

\* a search that does not look below the start
Bitmap_wrap_search_none(b, start_bit, start_word, start_offset, fs) == NoSlot

\* wrap_end_mask = (1 << start_offset) - 1
Bitmap_wrap_search(b, start_bit, start_word, start_offset, fs) ==
  IF start_bit = 0 THEN NoSlot
  ELSE Bitmap_iter_range(b, 0, 0, start_word,
                         IF start_word = 0
                         THEN { o \in WordAll : o < start_offset } ELSE WordAll,
                         { o \in WordAll : o < start_offset }, fs)

\* start is the hint after unwrap_or(0)
Bitmap_find_bit(b, start, fs) ==
  IF start >= b.bits THEN NoSlot
  ELSE With(Bitmap_iter_range(b, word_index(start), word_index(start),
                              word_index(IF b.bits = 0 THEN 0 ELSE b.bits - 1),
                              mask_from(bit_index(start)), WordAll, fs),
            LAMBDA found :
              IF found # NoSlot THEN found
              ELSE Bitmap_wrap_search(b, start, word_index(start), bit_index(start), fs))

Bitmap_find_fs(b, start) == Bitmap_find_bit(b, start, TRUE)

Bitmap_find_fc(b, start) == Bitmap_find_bit(b, start, FALSE)

Bitmap_is_clear(b) == b.used = 0

Bitmap_is_full(b) == b.used >= b.bits

(***************************************************************************)
(* basealloc-fixed bump.rs and fixed.rs (basealloc-alloc lib.rs declares no *)
(* bump module; its bump.rs is not part of the crate).  A chunk is named by *)
(* the base address of its extent: Chunk::new places the Chunk at offset 0  *)
(* of the extent it maps.  bump.os[a] is the length of the extent the OS    *)
(* has mapped at a (0: none), bump.rel[a] the number of dealloc calls the   *)
(* OS has seen for the extent at a.                                         *)
(***************************************************************************)
BumpBases == { p * PageSize : p \in 1 .. BumpSpace }
BumpSizes == {1, PageSize + 1}
BumpAligns == {1, PageSize, 2 * PageSize}
BumpChunkSizes == {0, 2 * PageSize}

NoChunk == [live |-> FALSE, next |-> NULL, prev |-> NULL, max |-> 0, offset |-> 0]

Bump_none ==
  [kind |-> "none", head |-> NULL, tail |-> NULL, chunk_size |-> 0,
   chunks |-> [a \in BumpBases |-> NoChunk],
   os |-> [a \in BumpBases |-> 0], rel |-> [a \in BumpBases |-> 0]]

\* Bump::new
Bump_new(h, chunk_size) ==
  [h EXCEPT !.bump.kind = "live", !.bump.head = NULL, !.bump.tail = NULL,
            !.bump.chunk_size = chunk_size]

\* math::align_up for a power of two align (a Layout has no other)
align_up(value, align) == ((value + align - 1) \div align) * align

\* the bytes [a, a + size) lie in the address space and in no mapped extent
OS_free_range(h, a, size) ==
  /\ a \in BumpBases
  /\ a + size <= (BumpSpace + 1) * PageSize
  /\ \A e \in BumpBases :
       h.bump.os[e] = 0 \/ e + h.bump.os[e] <= a \/ a + size <= e

\* Extent::new: GLOBAL_SYSTEM.alloc(size), at the base the OS chooses
Extent_new(h, size, base, os_ok) ==
  IF os_ok /\ size > 0 /\ OS_free_range(h, base, size)
  THEN Res(TRUE, [h EXCEPT !.bump.os[base] = size], base)
  ELSE Res(FALSE, h, "ExtentError")

\* Drop for Extent: GLOBAL_SYSTEM.dealloc(slice)
Extent_drop(h, a) ==
  [h EXCEPT !.bump.os[a] = 0, !.bump.rel[a] = @ + 1]

Fixed_has(c, needed) ==
  IF c.max < needed THEN FALSE ELSE c.offset <= c.max - needed

\* Fixed::reserve: the start offset is aligned as an address, not as an offset
Fixed_reserve(h, a, required, align) ==
  With(align_up(a + h.bump.chunks[a].offset, align) - a,
       LAMBDA start :
         IF start + required > h.bump.chunks[a].max
         THEN Res(FALSE, h, "FixedError")
         ELSE Res(TRUE, [h EXCEPT !.bump.chunks[a].offset = start + required],
                  start))

\* Fixed::allocate on the slice of the extent at a; Ok carries the address
\* of the first byte of the slice handed out
Fixed_allocate(h, a, size, align) ==
  IF ~Fixed_has(h.bump.chunks[a], size) THEN Res(FALSE, h, "FixedError")
  ELSE Try(Fixed_reserve(h, a, size, align),
           LAMBDA s :
             IF s.val + size > h.bump.os[a] THEN Res(FALSE, s.h, "FixedError")
             ELSE Res(TRUE, s.h, a + s.val))

Chunk_data_offset == page_align(align_up(CHUNK_SIZEOF, CHUNK_ALIGNOF))

\* Chunk::new: when fixed.create::<Chunk>() fails the local extent is dropped
Chunk_new(h, size, base, os_ok) ==
  Try(Extent_new(h, size, base, os_ok),
      LAMBDA e :
        Match(Fixed_allocate([e.h EXCEPT !.bump.chunks[base] =
                                [NoChunk EXCEPT !.live = TRUE, !.max = size]],
                             base, CHUNK_SIZEOF, CHUNK_ALIGNOF),
              LAMBDA f : Res(TRUE, f.h, base),
              LAMBDA f : Res(FALSE, Extent_drop(e.h, base), "FixedError")))

\* Chunk::allocate
Chunk_allocate(h, a, size, align) == Fixed_allocate(h, a, size, align)

\* Drop for Chunk: fixed, then link (Drop for Link nulls it), the extent last
Chunk_drop(h, a) ==
  Extent_drop([h EXCEPT !.bump.chunks[a] = NoChunk], a)

\* Bump::obtain_chunk
Bump_obtain_chunk(h, size, base, os_ok) ==
  Chunk_new(h, page_align(Max(h.bump.chunk_size, Chunk_data_offset + size)),
            base, os_ok)

\* the new chunk goes after the tail, or becomes the head, and is the tail
Bump_append(h, new_chunk) ==
  IF h.bump.tail # NULL
  THEN [h EXCEPT !.bump.chunks = insert_after(@, new_chunk, h.bump.tail),
                 !.bump.tail = new_chunk]
  ELSE [h EXCEPT !.bump.head = new_chunk, !.bump.tail = new_chunk]

Bump_tail_allocate(h, size, align) ==
  IF h.bump.tail # NULL THEN Chunk_allocate(h, h.bump.tail, size, align)
  ELSE Res(FALSE, h, "none")

\* Bump::allocate
Bump_allocate(h, size, align, base, os_ok) ==
  OrElse(Bump_tail_allocate(h, size, align),
         LAMBDA t :
           Try(Bump_obtain_chunk(h, size, base, os_ok),
               LAMBDA n :
                 Chunk_allocate(Bump_append(n.h, n.val), n.val, size, align)))

\* the loop of Drop for Bump: List::remove, then the read
\* of the chunk's next link, then drop_in_place of the chunk
RECURSIVE Bump_drop_loop(_, _)
Bump_drop_loop(h, current) ==
  IF current = NULL THEN h
  ELSE With([h EXCEPT !.bump.chunks = remove(@, current)],
            LAMBDA h1 :
              Bump_drop_loop(Chunk_drop(h1, current),
                             h1.bump.chunks[current].next))

\* Drop for Bump
Bump_drop(h) ==
  [Bump_drop_loop(h, h.bump.head) EXCEPT !.bump.kind = "dropped"]

(***************************************************************************)
(* static_.rs: a thread's first access to THREAD_ARENA, one shared-memory   *)
(* access per step.  dir.bm is the set of bits set in BM_STORE, dir.last    *)
(* BM_LAST, dir.arenas the directory STATIC.arenas, dir.made the number of  *)
(* Arena::new calls that succeeded (an arena is named by that number).      *)
(* ARENA_GUARD is never accessed, so its destructor never runs: a thread    *)
(* that exits leaves its bit set and its arena in the directory.            *)
(***************************************************************************)
DirThreads == 1 .. MaxDirThreads

DirThread_new ==
  [pc |-> "new", last |-> 0, idx |-> NoArena, arena |-> NULL]

Dir_new ==
  [bm |-> {}, last |-> 0, arenas |-> [i \in Arenas |-> NULL], made |-> 0,
   th |-> [t \in DirThreads |-> DirThread_new], panic |-> "no", overlap |-> FALSE]

\* the pcs of a thread that is inside acquire_arena
DirAcquiring == {"find", "set", "store", "load", "create"}

\* acquire_arena: BM_LAST.load
Dir_load_last(h, t) ==
  [h EXCEPT !.dir.th[t].pc = "find", !.dir.th[t].last = h.dir.last,
            !.dir.overlap = @ \/ \E u \in DirThreads \ {t} :
                                   h.dir.th[u].pc \in DirAcquiring]

\* acquire_arena: bitmap().find_fc(Some(last))?; the initializer of
\* THREAD_ARENA unwraps the None
Dir_find(h, t) ==
  With(find_fc(h.dir.bm, HARENA_BMS, h.dir.th[t].last),
       LAMBDA idx :
         IF idx = NoSlot
         THEN [h EXCEPT !.dir.panic = "full", !.dir.th[t].pc = "panicked"]
         ELSE [h EXCEPT !.dir.th[t].idx = idx, !.dir.th[t].pc = "set"])

\* acquire_arena: bitmap().set(idx), a fetch_or that does not look at the bit
Dir_set(h, t) ==
  [h EXCEPT !.dir.bm = @ \cup {h.dir.th[t].idx}, !.dir.th[t].pc = "store"]

\* acquire_arena: BM_LAST.store((idx + 1) % ARENA_BMS)
Dir_store_last(h, t) ==
  [h EXCEPT !.dir.last = (h.dir.th[t].idx + 1) % HARENA_BMS,
            !.dir.th[t].pc = "load"]

\* acquire_arena: arenas()[idx].load; the array has MAX_ARENAS entries and
\* the index is bounds-checked
Dir_load_arena(h, t) ==
  IF h.dir.th[t].idx \notin Arenas
  THEN [h EXCEPT !.dir.panic = "index", !.dir.th[t].pc = "panicked"]
  ELSE IF h.dir.arenas[h.dir.th[t].idx] # NULL
  THEN [h EXCEPT !.dir.th[t].arena = h.dir.arenas[h.dir.th[t].idx],
                 !.dir.th[t].pc = "held"]
  ELSE [h EXCEPT !.dir.th[t].pc = "create"]

\* create_arena: Arena::new, then the store into the directory; the
\* initializer of THREAD_ARENA unwraps the None of a failed Arena::new
Dir_create_arena(h, t, os_ok) ==
  IF ~os_ok THEN [h EXCEPT !.dir.panic = "create", !.dir.th[t].pc = "panicked"]
  ELSE [h EXCEPT !.dir.made = @ + 1,
                 !.dir.arenas[h.dir.th[t].idx] = h.dir.made + 1,
                 !.dir.th[t].arena = h.dir.made + 1,
                 !.dir.th[t].pc = "held"]

\* BaseAlloc::acquire_arena on a thread whose THREAD_ARENA is initialised:
\* the fallback is taken only for a null THREAD_ARENA
BaseAlloc_acquire_arena(h, t) ==
  IF h.dir.th[t].arena # NULL THEN h.dir.th[t].arena ELSE FALLBACK

(***************************************************************************)
(* The state machine                                                       *)
(***************************************************************************)
H ==
  [slabs |-> slabs, larges |-> larges, bins |-> bins, etree |-> etree,
   amap |-> amap, LOOKUP |-> LOOKUP, mapped |-> mapped, mem |-> mem, tc |-> tc,
   thread_arena |-> thread_arena, arena_bm |-> arena_bm, bm_last |-> bm_last,
   rtree |-> rtree,
   ring |-> ring,
   bitmap |-> bitmap,
   links |-> links,
   bump |-> bump,
   dir |-> dir,
   race |-> race]

SetH(h) ==
  /\ slabs' = h.slabs
  /\ larges' = h.larges
  /\ bins' = h.bins
  /\ etree' = h.etree
  /\ amap' = h.amap
  /\ LOOKUP' = h.LOOKUP
  /\ mapped' = h.mapped
  /\ mem' = h.mem
  /\ tc' = h.tc
  /\ thread_arena' = h.thread_arena
  /\ arena_bm' = h.arena_bm
  /\ bm_last' = h.bm_last
  /\ rtree' = h.rtree
  /\ ring' = h.ring
  /\ bitmap' = h.bitmap
  /\ links' = h.links
  /\ bump' = h.bump
  /\ dir' = h.dir
  /\ race' = h.race

\* the pointers held by the ring of class c of thread t
RingPtrs(h, t, c) ==
  { h.tc[t].store[store_base(c) + ((h.tc[t].ring[c].tail + i) % store_len(c))] :
      i \in 0 .. (h.tc[t].ring[c].len - 1) }

CachedPtrs(h, t) == UNION { RingPtrs(h, t, c) : c \in Classes }

\* math::is_aligned
is_aligned(v, align) == v % align = 0

\* what the ghost keeps of a call: for an allocation the pointer returned,
\* whether it met the requested alignment, and the class served; for a free
\* the class, owning arena and size the pointer resolved to before the call;
\* for a thread exit the pointers its rings held
Call(op, t, ptr, aligned, cls, owner, size, cached) ==
  [op |-> op, t |-> t, ptr |-> ptr, aligned |-> aligned, cls |-> cls,
   owner |-> owner, size |-> size, cached |-> cached]

\* k tells apart two hand-outs of the same pointer for the same size
HandOut(ptr, size) ==
  IF is_invalid(ptr) THEN live
  ELSE live \cup {[ptr |-> ptr, size |-> size,
                   k |-> SetMin({ k \in 1 .. (MaxLive + 1) :
                                    [ptr |-> ptr, size |-> size, k |-> k] \notin live })]}

\* no bitmap counter has wrapped further than the model follows
WrapOk == \A i \in DOMAIN slabs : slabs[i].used > 0 - MaxWrap

Init ==
  /\ sz = 0
  /\ ci = class_for(0)
  /\ slabs = << >>
  /\ larges = {}
  /\ bins = [a \in Arenas |-> [c \in Classes |->
               [free_head |-> NULL, active_head |-> NULL, active_tail |-> NULL]]]
  /\ etree = [a \in Arenas |-> [p \in PageAddrs |-> NoOwner]]
  /\ amap = [p \in PageAddrs |-> NoArena]
  /\ LOOKUP = [p \in PageAddrs |-> NoOwner]
  /\ mapped = {}
  /\ mem = [a \in UNION { pg .. (pg + PageSize - 1) : pg \in PageAddrs } |-> 0]
  /\ tc = [t \in Threads |-> TCache_none]
  /\ thread_arena = [t \in Threads |-> NoArena]
  /\ arena_bm = {}
  /\ bm_last = 0
  /\ alive = [t \in Threads |-> TRUE]
  /\ live = {}
  /\ last = Call("init", 0, NULL, TRUE, NoClass, NoArena, 0, {})
  /\ rtree = RTree_new
  /\ ring = RingBuf_new(NULL)
  /\ bitmap = Bitmap_zero(BmWords * USIZE_BITS)
  /\ links = [n \in ListNodes |-> [next |-> NULL, prev |-> NULL]]
  /\ bump = Bump_none
  /\ dir = Dir_new
  /\ race = Race_new

\* the effect of an allocating call that returned r
Allocated(r, t, align, size) ==
  /\ SetH(r.h)
  /\ live' = HandOut(r.val, size)
  /\ last' = Call("alloc", t, r.val, is_aligned(r.val, align), h_class_for(size),
                  NoArena, 0, {})

Malloc(t, size) ==
  /\ alive[t]
  /\ Cardinality(live) < MaxLive
  /\ Allocated(malloc(H, t, size), t, 1, size)
  /\ UNCHANGED <<sz, ci, alive>>

AlignedAlloc(t, align, size) ==
  /\ alive[t]
  /\ Cardinality(live) < MaxLive
  /\ Allocated(aligned_alloc(H, t, align, size), t, align, size)
  /\ UNCHANGED <<sz, ci, alive>>

FreeCall(t, ptr) ==
  With(lookup(H, ptr),
       LAMBDA entry : Call("free", t, ptr, TRUE, entry.class, entry.arena,
                           sizeof(H, ptr), {}))

\* free(ptr) on a pointer the user holds
Free(t, x) ==
  /\ alive[t]
  /\ WrapOk
  /\ SetH(free(H, t, x.ptr))
  /\ live' = live \ {x}
  /\ last' = FreeCall(t, x.ptr)
  /\ UNCHANGED <<sz, ci, alive>>

\* GlobalAlloc::dealloc on a pointer the user holds
Dealloc(t, x) ==
  /\ alive[t]
  /\ WrapOk
  /\ SetH(dealloc(H, t, x.ptr))
  /\ live' = live \ {x}
  /\ last' = FreeCall(t, x.ptr)
  /\ UNCHANGED <<sz, ci, alive>>

\* free(NULL), free(sentinel)
FreeInvalid(t, ptr) ==
  /\ alive[t]
  /\ SetH(free(H, t, ptr))
  /\ last' = FreeCall(t, ptr)
  /\ UNCHANGED <<sz, ci, alive, live>>

\* GlobalAlloc::dealloc on NULL or the sentinel
DeallocInvalid(t, ptr) ==
  /\ alive[t]
  /\ SetH(dealloc(H, t, ptr))
  /\ last' = FreeCall(t, ptr)
  /\ UNCHANGED <<sz, ci, alive, live>>

ThreadExit(t) ==
  /\ alive[t]
  /\ SetH(tls_detor(H, t))
  /\ alive' = [alive EXCEPT ![t] = FALSE]
  /\ last' = Call("exit", t, NULL, TRUE, NoClass, NoArena, 0, CachedPtrs(H, t))
  /\ UNCHANGED <<sz, ci, live>>

Next ==
  \/ \E t \in Allocators, size \in 0 .. MaxReq : Malloc(t, size)
  \/ \E t \in Allocators, align \in Aligns, size \in 0 .. MaxReq : AlignedAlloc(t, align, size)
  \/ \E t \in Threads, x \in live : Free(t, x)
  \/ \E t \in Threads, x \in live : Dealloc(t, x)
  \/ \E t \in Threads, ptr \in {NULL, SENTINEL} : FreeInvalid(t, ptr)
  \/ \E t \in Threads, ptr \in {NULL, SENTINEL} : DeallocInvalid(t, ptr)
  \/ \E t \in Threads : ThreadExit(t)

Spec == Init /\ [][Next]_vars

\* the size-class resolver on its own
InitSC ==
  /\ Init
  /\ sz = 0

PickSize(size) ==
  /\ sz' = size
  /\ ci' = class_for(size)
  /\ UNCHANGED <<heapvars, live, last>>

NextSC == \E size \in SizeInputs : PickSize(size)

SpecSC == InitSC /\ [][NextSC]_vars

(***************************************************************************)
(* The entry points that read and write the blocks, called by one thread   *)
(* that holds at most MaxHeld blocks: malloc followed by the user filling  *)
(* the block, calloc, realloc and free.  A call that touches an unmapped   *)
(* address ends the process.                                               *)
(***************************************************************************)
\* p = malloc(size); memset(p, size, size): every byte of the block becomes
\* the size asked for
MallocFill(t, size) ==
  /\ alive[t]
  /\ Cardinality(live) < MaxHeld
  /\ With(malloc(H, t, size),
          LAMBDA m :
            With(IF m.val = NULL THEN m ELSE write_bytes(m.h, m.val, size, size),
                 LAMBDA r :
                   /\ SetH(r.h)
                   /\ live' = IF r.val = Fault THEN live ELSE HandOut(r.val, size)
                   /\ alive' = [u \in Threads |-> alive[u] /\ r.val # Fault]
                   /\ last' = [op |-> "malloc", t |-> t, ptr |-> r.val]))
  /\ UNCHANGED <<sz, ci>>

\* last keeps whether the product overflowed and whether the block handed
\* out held a non-zero byte before the call
Calloc(t, num, size) ==
  /\ alive[t]
  /\ Cardinality(live) < MaxHeld
  /\ With(calloc(H, t, num, size),
          LAMBDA r :
            /\ SetH(r.h)
            /\ live' = IF r.val = Fault THEN live ELSE HandOut(r.val, num * size)
            /\ alive' = [u \in Threads |-> alive[u] /\ r.val # Fault]
            /\ last' = [op |-> "calloc", t |-> t, ptr |-> r.val,
                        total |-> IF num * size >= 2 ^ HWORD_BITS THEN 0 ELSE num * size,
                        overflow |-> num * size >= 2 ^ HWORD_BITS,
                        stale |-> \E a \in DOMAIN mem :
                                     /\ r.val <= a /\ a < r.val + num * size
                                     /\ mem[a] # 0])
  /\ UNCHANGED <<sz, ci>>

\* last keeps the size recorded for p and the bytes p held before the call
Realloc(t, x, size, bytewise) ==
  /\ alive[t]
  /\ WrapOk
  /\ With(realloc(H, t, x.ptr, size, bytewise),
          LAMBDA r :
            /\ SetH(r.h)
            /\ live' = IF r.val \in {NULL, Fault} THEN live
                       ELSE (live \ {x}) \cup {[ptr |-> r.val, size |-> size, k |-> 1]}
            /\ alive' = [u \in Threads |-> alive[u] /\ r.val # Fault]
            /\ last' = [op |-> "realloc", t |-> t, p |-> x.ptr, n |-> size,
                        old |-> sizeof(H, x.ptr), q |-> r.val,
                        held |-> [i \in 0 .. (sizeof(H, x.ptr) - 1) |->
                                    IF x.ptr + i \in DOMAIN mem
                                    THEN mem[x.ptr + i] ELSE 0]])
  /\ UNCHANGED <<sz, ci>>

\* the sizes asked for are those of the size classes
NextMem ==
  \/ \E size \in 1 .. (HCUTOFF - 1) : MallocFill(1, size)
  \/ \E num \in {0, 1, 2 ^ HWORD_BITS - 1}, size \in {0, 1, 2, 2 ^ HWORD_BITS - 1} :
        Calloc(1, num, size)
  \/ \E x \in live, size \in 1 .. (HCUTOFF - 1), bytewise \in BOOLEAN :
        Realloc(1, x, size, bytewise)
  \/ \E x \in live : Free(1, x)

SpecMem == Init /\ [][NextMem]_vars

(***************************************************************************)
(* One slab on its own: Slab::new, Slab::allocate, Slab::deallocate.       *)
(* live holds the pointers the slab handed out and has not taken back;     *)
(* last is the last call: whether it succeeded, the pointer it returned    *)
(* or was given, whether no deallocate has run since the slab was made,    *)
(* and the pointer a directly preceding successful deallocate released.    *)
(***************************************************************************)
SlabNew(c, size) ==
  /\ slabs = << >>
  /\ With(Slab_write(H, 0, c, size, os_map(mapped, size)),
          LAMBDA r : r.ok /\ SetH(r.h))
  /\ live' = {}
  /\ last' = [op |-> "new", ok |-> TRUE, ptr |-> NULL, fresh |-> TRUE, after |-> NULL]
  /\ UNCHANGED <<sz, ci, alive>>

SlabAllocate ==
  /\ slabs # << >>
  /\ With(Slab_allocate(H, 1),
          LAMBDA r :
            /\ SetH(r.h)
            /\ live' = IF r.ok THEN live \cup {r.val} ELSE live
            /\ last' = [op |-> "allocate", ok |-> r.ok, ptr |-> r.val,
                        fresh |-> last.fresh,
                        after |-> IF last.op = "deallocate" /\ last.ok
                                  THEN last.ptr ELSE NULL])
  /\ UNCHANGED <<sz, ci, alive>>

SlabDeallocate(ptr) ==
  /\ WrapOk
  /\ With(Slab_deallocate(H, 1, ptr),
          LAMBDA r :
            /\ SetH(r.h)
            /\ live' = IF r.ok THEN live \ {ptr} ELSE live
            /\ last' = [op |-> "deallocate", ok |-> r.ok, ptr |-> ptr,
                        fresh |-> FALSE, after |-> NULL])
  /\ UNCHANGED <<sz, ci, alive>>

\* deallocate is given the pointers allocate can return, the first address
\* past the slab and the last address before it
NextSlab ==
  \/ \E c \in Classes, k \in 1 .. NPages : SlabNew(c, k * PageSize)
  \/ SlabAllocate
  \/ \E i \in 0 .. (IF slabs = << >> THEN 0 - 1 ELSE slab_regions(slabs[1])) :
        SlabDeallocate(ptr_at(slabs[1], i))
  \/ \E below \in 1 .. (IF slabs = << >> THEN 0 ELSE 1) :
        SlabDeallocate(slabs[1].base - below)

SpecSlab == Init /\ [][NextSlab]_vars

(***************************************************************************)
(* The bins of one arena on their own: Bin::allocate, Bin::deallocate.     *)
(* live holds the pointers handed out and not given back; last is the      *)
(* last call, with the class asked for and the number of deallocate calls  *)
(* made so far (2 stands for two or more).                                 *)
(***************************************************************************)
BinAllocate(c) ==
  /\ With(Bin_allocate(H, 0, c),
          LAMBDA r :
            /\ SetH(r.h)
            /\ live' = IF r.ok THEN live \cup {r.val} ELSE live
            /\ last' = [op |-> "allocate", ok |-> r.ok, ptr |-> r.val, cls |-> c,
                        nfree |-> IF last.op = "init" THEN 0 ELSE last.nfree])
  /\ UNCHANGED <<sz, ci, alive>>

\* the caller names the slab the pointer came from
BinDeallocate(ptr, s) ==
  /\ WrapOk
  /\ has_ptr(slabs[s], ptr)
  /\ With(Bin_deallocate(H, 0, slabs[s].class, ptr, s),
          LAMBDA r :
            /\ SetH(r.h)
            /\ live' = IF r.ok THEN live \ {ptr} ELSE live
            /\ last' = [op |-> "deallocate", ok |-> r.ok, ptr |-> ptr,
                        cls |-> slabs[s].class,
                        nfree |-> IF last.nfree = 0 THEN 1 ELSE 2])
  /\ UNCHANGED <<sz, ci, alive>>

NextBin ==
  \/ \E c \in Classes : BinAllocate(c)
  \/ \E ptr \in live, s \in DOMAIN slabs : BinDeallocate(ptr, s)

SpecBin == Init /\ [][NextBin]_vars

(***************************************************************************)
(* The ownership maps on their own: the extent tree of arena 0, the arena  *)
(* map and the LOOKUP tree, driven with extents of whole pages.  last is   *)
(* the last call: the map it worked on, the extent, the owner it was to    *)
(* store, whether it succeeded, and the map as it was before the call.     *)
(***************************************************************************)
\* the extents handed in are whole pages inside the address space
MapCall(op, map, r, base, len, val, before) ==
  /\ PagesOf(base, len) \subseteq PageAddrs
  /\ SetH(r.h)
  /\ last' = [op |-> op, map |-> map, ok |-> r.ok, base |-> base, len |-> len,
              val |-> val, before |-> before]
  /\ UNCHANGED <<sz, ci, alive, live>>

ExtentRegister(base, len, info) ==
  MapCall("register", "etree", ExtentTree_register(H, 0, base, len, info),
          base, len, info, etree[0])

ExtentUnregister(base, len) ==
  MapCall("unregister", "etree", ExtentTree_unregister(H, 0, base, len),
          base, len, NoOwner, etree[0])

ArenaAssociate(base, len, id) ==
  MapCall("register", "amap", ArenaMap_associate(H, base, len, id),
          base, len, id, amap)

ArenaDetach(base, len) ==
  MapCall("unregister", "amap", ArenaMap_detach(H, base, len),
          base, len, NoArena, amap)

\* register_sc(range, bin, slab, class)
RegisterSc(base, len, slab, class) ==
  With([kind |-> "class", ref |-> slab, class |-> class],
       LAMBDA entry : MapCall("register", "LOOKUP", static_register(H, base, len, entry),
                              base, len, entry, LOOKUP))

\* register_large(extent)
RegisterLarge(base, len) ==
  With([kind |-> "large", ref |-> base, class |-> NoClass],
       LAMBDA entry : MapCall("register", "LOOKUP", static_register(H, base, len, entry),
                              base, len, entry, LOOKUP))

UnregisterRange(base, len) ==
  MapCall("unregister", "LOOKUP", unregister_range(H, base, len),
          base, len, NoOwner, LOOKUP)

NextMaps ==
  \/ \E base \in PageAddrs, k \in 1 .. NPages, c \in Classes :
        ExtentRegister(base, k * PageSize, [kind |-> "slab", ref |-> 1, class |-> c])
  \/ \E base \in PageAddrs, k \in 1 .. NPages : ExtentUnregister(base, k * PageSize)
  \/ \E base \in PageAddrs, k \in 1 .. NPages, id \in Arenas :
        ArenaAssociate(base, k * PageSize, id)
  \/ \E base \in PageAddrs, k \in 1 .. NPages : ArenaDetach(base, k * PageSize)
  \/ \E base \in PageAddrs, k \in 1 .. NPages : RegisterSc(base, k * PageSize, 1, 0)
  \/ \E base \in PageAddrs, k \in 1 .. NPages : RegisterLarge(base, k * PageSize)
  \/ \E base \in PageAddrs, k \in 1 .. NPages : UnregisterRange(base, k * PageSize)

SpecMaps == Init /\ [][NextMaps]_vars

(***************************************************************************)
(* Properties of the size-class resolver (checked under SpecSC)            *)
(***************************************************************************)

\* C4: for 0 < size < SCLASS_CUTOFF, class_for returns the smallest class
\* whose region size holds the request.
C4_SmallestFit ==
  (0 < sz /\ sz < SCLASS_CUTOFF) =>
     /\ ci # NoClass
     /\ CLASSES(ci) >= sz
     /\ \A j \in 0 .. (NSCLASSES - 1) : CLASSES(j) >= sz => j >= ci

\* C5: class_for returns none exactly when size = 0 or size >= SCLASS_CUTOFF,
\* and otherwise an index below NSCLASSES.
C5_NoneIffOutOfRange ==
  /\ (ci = NoClass) <=> (sz = 0 \/ sz >= SCLASS_CUTOFF)
  /\ ci # NoClass => ci \in 0 .. (NSCLASSES - 1)

\* class_for has been asked for SCLASS_CUTOFF, the first size past the
\* classed range, and returned none
C5_AtCutoff == sz = SCLASS_CUTOFF /\ ci = NoClass

(***************************************************************************)
(* Properties of the allocator (checked under Spec)                        *)
(***************************************************************************)

\* C1: no two allocations the user holds overlap.
C1_LiveDisjoint ==
  \A x, y \in live :
     x = y \/ x.ptr + x.size <= y.ptr \/ y.ptr + y.size <= x.ptr

\* C2: every pointer the user holds resolves through the arena map to an
\* arena whose extent tree names the slab or extent that contains it.
C2_LiveResolves ==
  \A x \in live :
     /\ ArenaMap_lookup(H, x.ptr) # NoArena
     /\ \/ /\ ExtentTree_lookup(H, ArenaMap_lookup(H, x.ptr), x.ptr).kind = "slab"
           /\ has_ptr(slabs[ExtentTree_lookup(H, ArenaMap_lookup(H, x.ptr), x.ptr).ref],
                      x.ptr)
        \/ /\ ExtentTree_lookup(H, ArenaMap_lookup(H, x.ptr), x.ptr).kind = "extent"
           /\ \E e \in larges : e.base <= x.ptr /\ x.ptr < e.base + e.len

\* C3: an allocating call that returns memory returns a pointer that is a
\* multiple of the alignment it was asked for.
C3_Aligned ==
  (last.op = "alloc" /\ ~is_invalid(last.ptr)) => last.aligned

\* C6: when a thread frees a classed pointer and its very next call asks for
\* the same class, it gets that pointer back.
C6_FreeThenAllocReturnsSame ==
  [][(/\ last.op = "free"
      /\ ~is_invalid(last.ptr)
      /\ last.cls # NoClass
      /\ last'.op = "alloc"
      /\ last'.t = last.t
      /\ last'.cls = last.cls) => last'.ptr = last.ptr]_vars

\* the region of ptr is clear in the bitmap of the slab that contains it
RegionFree(ptr) ==
  \E i \in DOMAIN slabs :
     /\ has_ptr(slabs[i], ptr)
     /\ index_for(slabs[i], ptr) \notin slabs[i].bits

\* C7: after a thread frees a pointer owned by another arena, the pointer is
\* not left allocated: it waits in the thread's ring, or the owning arena has
\* taken it back (its region is clear, or its extent is gone).
C7_CrossArenaFreeLands ==
  (/\ last.op = "free"
   /\ ~is_invalid(last.ptr)
   /\ last.size > 0
   /\ last.owner # thread_arena[last.t]) =>
     \/ last.ptr \in CachedPtrs(H, last.t)
     \/ IF last.cls # NoClass
        THEN RegionFree(last.ptr)
        ELSE \A e \in larges : e.base # last.ptr

\* C8: once a thread has exited, every pointer its rings held has been given
\* back to its arena (its region is clear in the slab's bitmap).
C8_ExitFlushesRings ==
  last.op = "exit" => \A p \in last.cached : RegionFree(p)

\* C9: a large allocation leaves every page of its extent registered in the
\* arena's extent tree and in the arena map; after the matching free both
\* lookups give none for every page and the pages are unmapped.
C9_LargeRegisteredThenReleased ==
  /\ (last.op = "alloc" /\ last.cls = NoClass /\ ~is_invalid(last.ptr)) =>
        \E e \in larges :
           /\ e.base = last.ptr
           /\ \A pg \in PagesOf(e.base, e.len) :
                 /\ ArenaMap_lookup(H, pg) = thread_arena[last.t]
                 /\ ExtentTree_lookup(H, thread_arena[last.t], pg)
                       = [kind |-> "extent", ref |-> e.base, class |-> NoClass]
  /\ (last.op = "free" /\ last.cls = NoClass /\ last.size > 0) =>
        \A pg \in PagesOf(last.ptr, last.size) :
           /\ ArenaMap_lookup(H, pg) = NoArena
           /\ ExtentTree_lookup(H, last.owner, pg) = NoOwner
           /\ pg \notin mapped

\* C10: free and dealloc on the null pointer or on the sentinel change
\* nothing: neither the allocator's state nor what the user holds.
C10_InvalidFreeIsNoOp ==
  [][(last'.op = "free" /\ is_invalid(last'.ptr)) => UNCHANGED <<heapvars, live>>]_vars

\* the sentinel has been freed by a thread whose rings hold pointers, while
\* the user holds allocations
C10_SentinelFreedOnBusyHeap ==
  /\ last.op = "free"
  /\ last.ptr = SENTINEL
  /\ CachedPtrs(H, last.t) # {}
  /\ live # {}

(***************************************************************************)
(* Properties of one slab (checked under SpecSlab)                         *)
(***************************************************************************)

\* C13: on a fresh slab of capacity C the first C calls of allocate, with no
\* deallocate in between, succeed with C distinct pointers inside the slab;
\* the call after them fails (OutOfMemory); and an allocate that follows a
\* successful deallocate succeeds.
C13_SlabCapacity ==
  [][last'.op = "allocate" =>
       /\ (last'.fresh /\ Cardinality(live) < slab_regions(slabs[1])) =>
             /\ last'.ok
             /\ has_ptr(slabs[1], last'.ptr)
             /\ last'.ptr \notin live
             /\ Cardinality(live') = Cardinality(live) + 1
       /\ (last'.fresh /\ Cardinality(live) = slab_regions(slabs[1])) => ~last'.ok
       /\ (last.op = "deallocate" /\ last.ok) => last'.ok]_vars

\* a slab of four regions, never freed from, has refused a fifth allocation
C13_FifthRefused ==
  /\ last.op = "allocate"
  /\ ~last.ok
  /\ last.fresh
  /\ slab_regions(slabs[1]) = 4
  /\ Cardinality(live) = 4

\* C14: on one slab, the allocate that directly follows a successful
\* deallocate(p) returns p, whatever other regions are allocated or free.
C14_FreedRegionReturnedNext ==
  [][(last.op = "deallocate" /\ last.ok /\ last'.op = "allocate") =>
        (last'.ok /\ last'.ptr = last.ptr)]_vars

\* region 2 came back right after its release although region 0 was free
\* and region 3 allocated
C14_ReturnedPastLowerFreeRegion ==
  /\ last.op = "allocate"
  /\ last.ok
  /\ last.after = ptr_at(slabs[1], 2)
  /\ last.ptr = last.after
  /\ 0 \notin slabs[1].bits
  /\ 3 \in slabs[1].bits

(***************************************************************************)
(* Properties of a bin (checked under SpecBin)                             *)
(***************************************************************************)

\* C15: a bin's first slab was filled by cap allocations and one more
\* allocation made a second slab; one region of the first slab is given
\* back (the first deallocate on the bin); the next allocation of that class
\* returns the region just given back.
C15_FreedRegionOfFirstSlabReused ==
  [][(/\ last.op = "deallocate"
      /\ last.ok
      /\ last.nfree = 1
      /\ Len(slabs) = 2
      /\ slabs[2].class = slabs[1].class
      /\ has_ptr(slabs[1], last.ptr)
      /\ slabs[1].bits = (0 .. (slab_regions(slabs[1]) - 1)) \ {index_for(slabs[1], last.ptr)}
      /\ slabs[2].bits = {0}
      /\ last'.op = "allocate"
      /\ last'.cls = slabs[1].class) =>
        (last'.ok /\ last'.ptr = last.ptr)]_vars

(***************************************************************************)
(* Properties of the per-class tables (checked under SpecSC, where ci      *)
(* ranges over every class)                                                *)
(***************************************************************************)

\* C16: for every class the slab size pages_for gives is a positive multiple
\* of the page size, holds at least one region, and leaves less than one
\* region unused.
C16_SlabSizeFitsPagesAndRegions ==
  ci # NoClass =>
    \A ps \in PageSizes :
       /\ PAGES(ps, ci) > 0
       /\ PAGES(ps, ci) % ps = 0
       /\ PAGES(ps, ci) \div CLASSES(ci) >= 1
       /\ PAGES(ps, ci) - (PAGES(ps, ci) \div CLASSES(ci)) * CLASSES(ci) < CLASSES(ci)

\* the class of 1280-byte regions, larger than a 4096-byte page that it
\* does not divide: its slab is five pages
C16_ClassAcrossPages ==
  /\ ci # NoClass
  /\ CLASSES(ci) = 1280
  /\ PAGES(4096, ci) = 5 * 4096

\* C17: the ring of every class holds clamp(SCLASS_CUTOFF / class size,
\* CACHE_MIN, CACHE_MAX) pointer slots, so between 8 and 200.
C17_RingHoldsClampedSlots ==
  ci # NoClass =>
    /\ ring_capacity(ci) = clamp(SCLASS_CUTOFF \div CLASSES(ci), CACHE_MIN, CACHE_MAX)
    /\ CACHE_MIN <= ring_capacity(ci)
    /\ ring_capacity(ci) <= CACHE_MAX

(***************************************************************************)
(* Properties of the ownership maps (checked under SpecMaps)               *)
(***************************************************************************)

\* C18: when ExtentTree.register or ArenaMap.associate fails, the map is as
\* it was before the call (the pages the call had inserted are removed).
C18_FailedRangeInsertRolledBack ==
  (last.op = "register" /\ last.map \in {"etree", "amap"} /\ ~last.ok) =>
     (IF last.map = "etree" THEN etree[0] ELSE amap) = last.before

\* C19: after an extent is registered in an ownership map every address
\* inside it (first byte, interior, last byte) looks up to the owner stored;
\* after it is unregistered every such address looks up to none, and a
\* registration of the same extent that follows succeeds.
C19_RegisterLookupUnregister ==
  [][/\ (last'.op \in {"register", "unregister"} /\ last'.ok) =>
          \A addr \in last'.base .. (last'.base + last'.len - 1) :
             (CASE last'.map = "etree" -> ExtentTree_lookup(H', 0, addr)
                [] last'.map = "amap" -> ArenaMap_lookup(H', addr)
                [] OTHER -> static_lookup(H', addr)) = last'.val
     /\ (/\ last.op = "unregister" /\ last.ok
         /\ last'.op = "register"
         /\ last'.map = last.map /\ last'.base = last.base /\ last'.len = last.len) =>
           last'.ok]_vars

\* a two-page extent has been registered in the LOOKUP tree, its pages being
\* registered in the extent tree and the arena map as well, and its last
\* byte looks up to the owner stored
C19_TwoPagesRegistered ==
  /\ last.op = "register"
  /\ last.map = "LOOKUP"
  /\ last.ok
  /\ last.len = 2 * PageSize
  /\ \A pg \in PagesOf(last.base, last.len) : last.before[pg] = NoOwner
  /\ static_lookup(H, last.base + last.len - 1) = last.val
  /\ ExtentTree_lookup(H, 0, last.base + 1).kind = "slab"
  /\ ArenaMap_lookup(H, last.base + 1) # NoArena

\* C20: when register_sc or register_large fails (a page of the range is
\* already present), the LOOKUP tree is as it was before the call.
C20_FailedRegisterLeavesLookup ==
  (last.op = "register" /\ last.map = "LOOKUP" /\ ~last.ok) => LOOKUP = last.before

\* a registration of two pages failed at its second page: the first page
\* was free before the call and the second taken
C20_FailedAtSecondPage ==
  /\ last.op = "register"
  /\ last.map = "LOOKUP"
  /\ ~last.ok
  /\ last.len = 2 * PageSize
  /\ last.before[last.base] = NoOwner
  /\ last.before[last.base + PageSize] # NoOwner

(***************************************************************************)
(* Properties of calloc and realloc (checked under SpecMem)                *)
(***************************************************************************)

\* C11: calloc(num, size) returns null and allocates nothing when num * size
\* overflows the word; and when it returns a block (not null, not the
\* sentinel) every one of its num * size bytes is zero, whatever the region
\* held before.
C11_CallocZeroOrNull ==
  [][last'.op = "calloc" =>
       /\ last'.overflow => (last'.ptr = NULL /\ UNCHANGED <<heapvars, live>>)
       /\ (~is_invalid(last'.ptr) /\ last'.ptr # Fault) =>
             \A i \in 0 .. (last'.total - 1) :
                /\ last'.ptr + i \in DOMAIN mem
                /\ mem'[last'.ptr + i] = 0]_vars

\* calloc handed out two bytes of a region that held non-zero bytes
C11_StaleBlockZeroed ==
  /\ last.op = "calloc"
  /\ ~is_invalid(last.ptr)
  /\ last.ptr # Fault
  /\ last.total = 2
  /\ last.stale

\* C12: realloc(p, n) on a block p the user holds, n > 0: when it returns a
\* block q, q is another block than p, the first min(old, n) bytes of q are
\* the bytes p held and p has been given back (it waits in the thread's ring
\* or its region is clear); it returns null only when p's size was found and
\* no block could be had, and then p is still allocated and holds the bytes
\* it held.
C12_ReallocKeepsBytes ==
  last.op = "realloc" =>
    /\ (last.q # NULL /\ last.q # Fault) =>
          /\ \A i \in 0 .. (Min(last.old, last.n) - 1) :
                /\ last.q + i \in DOMAIN mem
                /\ mem[last.q + i] = last.held[i]
          /\ last.q # last.p
          /\ RegionFree(last.p) \/ last.p \in CachedPtrs(H, last.t)
    /\ last.q = NULL =>
          /\ last.old # 0
          /\ \A i \in 0 .. (last.old - 1) : mem[last.p + i] = last.held[i]
          /\ ~RegionFree(last.p)

\* the same for the calls whose p is sound before the call: its region is
\* allocated, no ring holds it and the lookup finds its size
ReallocOfSoundBlockKeepsBytes ==
  [][(/\ last'.op = "realloc"
      /\ ~RegionFree(last'.p)
      /\ last'.p \notin CachedPtrs(H, last'.t)
      /\ sizeof(H, last'.p) # 0) => C12_ReallocKeepsBytes']_vars

(***************************************************************************)
(* One RTree driven by insert, lookup and remove (single caller).  The     *)
(* ghost last.map is the partial map the calls made so far describe.       *)
(***************************************************************************)
RTreeOps == {"insert", "lookup", "remove"}

RTreeMap == IF last.op \in RTreeOps THEN last.map ELSE [k \in RKeys |-> NULL]

\* os_ok: the OS grants the chunks the bump asks for during the call;
\* weak: which compare_exchange_weak fails on its first try
RTreeInsert(key, val, os_ok, weak) ==
  /\ alive[1]
  /\ Len(rtree.nodes) < MaxNodes
  /\ With(RTree_insert(H, key, val, os_ok, weak),
          LAMBDA r :
            /\ SetH(r.h)
            /\ alive' = [u \in Threads |-> alive[u] /\ (r.ok \/ r.val # "Fault")]
            /\ last' = [op |-> "insert", key |-> key, val |-> val,
                        err |-> IF r.ok THEN "ok" ELSE r.val,
                        ret |-> NULL, held |-> RTreeMap[key],
                        map |-> IF r.ok THEN [RTreeMap EXCEPT ![key] = val]
                                ELSE RTreeMap])
  /\ UNCHANGED <<sz, ci, live>>

RTreeLookup(key) ==
  /\ alive[1]
  /\ last' = [op |-> "lookup", key |-> key, val |-> NULL, err |-> "ok",
              ret |-> RTree_lookup(H, key), held |-> RTreeMap[key],
              map |-> RTreeMap]
  /\ UNCHANGED <<sz, ci, heapvars, live>>

RTreeRemove(key) ==
  /\ alive[1]
  /\ With(RTree_remove(H, key),
          LAMBDA r :
            /\ SetH(r.h)
            /\ last' = [op |-> "remove", key |-> key, val |-> NULL, err |-> "ok",
                        ret |-> r.val, held |-> RTreeMap[key],
                        map |-> [RTreeMap EXCEPT ![key] = NULL]])
  /\ UNCHANGED <<sz, ci, alive, live>>

NextRTree ==
  \/ \E key \in RKeys, val \in RVals, os_ok \in BOOLEAN,
        weak \in {"none", "root", "child"} : RTreeInsert(key, val, os_ok, weak)
  \/ \E key \in RKeys : RTreeLookup(key)
  \/ \E key \in RKeys : RTreeRemove(key)

SpecRTree == Init /\ [][NextRTree]_vars

RTree_children(n) ==
  { rtree.nodes[n].children[i] : i \in 0 .. (RFANOUT - 1) } \ {NULL}

RECURSIVE RTree_reach(_, _)
RTree_reach(S, k) ==
  IF k = 0 THEN S
  ELSE RTree_reach(S \cup UNION { RTree_children(n) : n \in S }, k - 1)

\* the nodes a walk from the root can stand on
RTree_reachable ==
  IF rtree.root = NULL THEN {} ELSE RTree_reach({rtree.root}, RTree_levels)

RTree_empty_node(n) == rtree.nodes[n].value = NULL /\ RTree_children(n) = {}

(***************************************************************************)
(* Properties of the radix tree (checked under SpecRTree)                  *)
(***************************************************************************)

\* C21: the tree is a partial map from keys to values: after every call,
\* lookup of every key gives the value of the latest successful insert of
\* that key not followed by its remove, and none otherwise; the value a
\* lookup or a remove returns is that value; a call on one key leaves the
\* lookup of every other key as it was, also for keys that share interior
\* nodes.
C21_TreeIsPartialMap ==
  last.op \in RTreeOps =>
    /\ \A k \in RKeys : RTree_lookup(H, k) = last.map[k]
    /\ last.op \in {"lookup", "remove"} => last.ret = last.held
    /\ \A k \in RKeys \ {last.key} :
          last.map[k] = RTree_lookup(H, k)

\* a key was removed while the key that shares its parent node stays
C21_SiblingKeyKept ==
  /\ last.op = "remove"
  /\ last.key = 0
  /\ last.ret # NULL
  /\ last.map[1] # NULL
  /\ RTree_lookup(H, 1) = last.map[1]

\* C22: insert(key, v) on a key that holds a value returns AlreadyPresent
\* and a following lookup(key) returns the value held before.
C22_DuplicateInsertRefused ==
  (last.op = "insert" /\ last.held # NULL) =>
    /\ last.err = "AlreadyPresent"
    /\ RTree_lookup(H, last.key) = last.held

\* an insert of another value than the one held was refused
C22_OtherValueRefused ==
  /\ last.op = "insert"
  /\ last.err = "AlreadyPresent"
  /\ last.held # NULL
  /\ last.val # last.held

\* C23: no node reachable from the root is empty (without a value and
\* without a child); and when a remove leaves no key in the tree the root is
\* absent.
C23_NoEmptyNodeReachable ==
  /\ \A n \in RTree_reachable : ~RTree_empty_node(n)
  /\ (last.op = "remove" /\ \A k \in RKeys : last.map[k] = NULL) => rtree.root = NULL

\* every call other than an insert that fails keeps the tree free of
\* reachable empty nodes
RTreeCallsKeepNoEmptyNode ==
  [][((\A n \in RTree_reachable : ~RTree_empty_node(n)) /\ last'.err # "Bump")
       => (\A n \in RTree_reachable : ~RTree_empty_node(n))']_vars

\* a single key was inserted into the empty tree and removed again
RTreeSingleKeyRemoved ==
  /\ last.op = "remove"
  /\ last.ret # NULL
  /\ \A k \in RKeys : last.map[k] = NULL
  /\ rtree.root = NULL

(***************************************************************************)
(* One Ring driven by push and pop.  The ghost last.queue holds the values *)
(* pushed and not yet popped, oldest first.                                *)
(***************************************************************************)
RingOps == {"push", "pop"}

RingVals == 1 .. 3

RingQueue == IF last.op \in RingOps THEN last.queue ELSE << >>

RingPush(val) ==
  /\ With(RingBuf_push(H, val),
          LAMBDA r :
            /\ SetH(r.h)
            /\ last' = [op |-> "push", ok |-> r.ok, val |-> val, ret |-> r.val,
                        front |-> NULL,
                        queue |-> IF r.ok THEN Append(RingQueue, val) ELSE RingQueue])
  /\ UNCHANGED <<sz, ci, alive, live>>

RingPop ==
  /\ With(RingBuf_pop(H),
          LAMBDA r :
            /\ SetH(r.h)
            /\ last' = [op |-> "pop", ok |-> r.ok, val |-> NULL, ret |-> r.val,
                        front |-> IF RingQueue = << >> THEN NULL ELSE Head(RingQueue),
                        queue |-> IF r.ok THEN Tail(RingQueue) ELSE RingQueue])
  /\ UNCHANGED <<sz, ci, alive, live>>

NextRing ==
  \/ \E val \in RingVals : RingPush(val)
  \/ RingPop

SpecRing == Init /\ [][NextRing]_vars

(***************************************************************************)
(* Properties of the ring (checked under SpecRing)                         *)
(***************************************************************************)

\* C24: pop returns the values in the order they were pushed, also after
\* head and tail have wrapped around: a successful pop returns the oldest
\* value pushed and not yet popped, the ring holds the pending values in
\* push order from tail on, and len is the number of successful pushes minus
\* the number of successful pops and lies in 0..N.
C24_RingIsFifo ==
  last.op \in RingOps =>
    /\ ring.len = Len(last.queue)
    /\ ring.len \in 0 .. RingN
    /\ (last.op = "pop" /\ last.ok) => last.ret = last.front
    /\ (last.op = "pop" /\ last.front # NULL) => last.ok
    /\ \A i \in 0 .. (ring.len - 1) :
          ring.buf[(ring.tail + i) % RingN] = last.queue[i + 1]

\* a pop moved tail around the end while values pushed after head had
\* wrapped were pending
C24_PopAfterWrap ==
  /\ last.op = "pop"
  /\ last.ok
  /\ ring.tail = 0
  /\ ring.len > 1
  /\ last.ret # last.queue[1]

\* C25: push on a full ring returns Full with the value it was given, pop
\* on an empty ring returns none, and in both cases buf, head, tail and len
\* are as before.
C25_FullAndEmptyRefused ==
  [][/\ (last'.op = "push" /\ ring.len = RingN) =>
           (~last'.ok /\ last'.ret = last'.val /\ ring' = ring)
     /\ (last'.op = "pop" /\ ring.len = 0) =>
           (~last'.ok /\ last'.ret = NULL /\ ring' = ring)]_vars

\* a push was refused by the full ring
C25_PushOnFullRefused ==
  /\ last.op = "push"
  /\ ~last.ok
  /\ last.ret = last.val
  /\ ring.len = RingN

(***************************************************************************)
(* One Bitmap over a store of BmWords words: made by zero or one for any   *)
(* bit count the store can hold, then set, cleared and searched.           *)
(***************************************************************************)
BitmapOps == {"zero", "one", "set", "clear", "find_fc", "find_fs"}

BitmapCall(op, arg, b, ret) ==
  /\ SetH([H EXCEPT !.bitmap = b])
  /\ last' = [op |-> op, arg |-> arg, ret |-> ret]
  /\ UNCHANGED <<sz, ci, alive, live>>

BitmapZero(bits) == BitmapCall("zero", bits, Bitmap_zero(bits), NoSlot)

BitmapOne(bits) == BitmapCall("one", bits, Bitmap_one(bits), NoSlot)

BitmapSet(index) == BitmapCall("set", index, Bitmap_set(bitmap, index), NoSlot)

BitmapClear(index) == BitmapCall("clear", index, Bitmap_clear(bitmap, index), NoSlot)

BitmapFindFc(start) ==
  BitmapCall("find_fc", start, bitmap, Bitmap_find_fc(bitmap, start))

BitmapFindFs(start) ==
  BitmapCall("find_fs", start, bitmap, Bitmap_find_fs(bitmap, start))

NextBitmap ==
  \/ \E bits \in 0 .. Bitmap_available : BitmapZero(bits)
  \/ \E bits \in 0 .. Bitmap_available : BitmapOne(bits)
  \/ \E index \in 0 .. (Bitmap_available - 1) : BitmapSet(index)
  \/ \E index \in 0 .. (Bitmap_available - 1) : BitmapClear(index)
  \/ \E start \in 0 .. (Bitmap_available - 1) : BitmapFindFc(start)
  \/ \E start \in 0 .. (Bitmap_available - 1) : BitmapFindFs(start)

SpecBitmap == Init /\ [][NextBitmap]_vars

\* the indices below bits whose bit is set
BitmapSetBits == { i \in 0 .. (bitmap.bits - 1) : Bitmap_get(bitmap, i) }

\* the least member of cand at or above start, else the least member of
\* cand, else none
FirstFrom(cand, start) ==
  IF \E c \in cand : c >= start THEN SetMin({ c \in cand : c >= start })
  ELSE IF cand # {} THEN SetMin(cand)
  ELSE NoSlot

(***************************************************************************)
(* Properties of the bitmap (checked under SpecBitmap)                     *)
(***************************************************************************)

\* C26: for a start below the bit count find_fc (find_fs) returns the least
\* clear (set) index in [start, bits) when there is one, otherwise the least
\* clear (set) index in [0, start), otherwise none; what it returns is never
\* at or above the bit count, whether or not the bit count is a multiple of
\* the word size.
C26_FindWrapsAndStaysBelowBits ==
  (last.op \in {"find_fc", "find_fs"} /\ last.arg < bitmap.bits) =>
    /\ last.ret < bitmap.bits
    /\ last.op = "find_fs" => last.ret = FirstFrom(BitmapSetBits, last.arg)
    /\ last.op = "find_fc" =>
          last.ret = FirstFrom((0 .. (bitmap.bits - 1)) \ BitmapSetBits, last.arg)

\* three bits over two-bit words: the search from the last bit, which is
\* set, wrapped past the set bit 0 to the clear bit 1
C26_WrappedInPartWord ==
  /\ last.op = "find_fc"
  /\ bitmap.bits = USIZE_BITS + 1
  /\ last.arg = USIZE_BITS
  /\ Bitmap_get(bitmap, 0)
  /\ last.ret = 1

\* C27: after any sequence of set and clear on valid indices, also set on a
\* set bit and clear on a clear bit, used is the number of set bits, so
\* is_clear holds exactly when no bit is set and is_full exactly when every
\* bit is set.
C27_UsedCountsSetBits ==
  last.op \in BitmapOps =>
    /\ bitmap.used = Cardinality(BitmapSetBits)
    /\ Bitmap_is_clear(bitmap) <=> BitmapSetBits = {}
    /\ Bitmap_is_full(bitmap) <=> BitmapSetBits = 0 .. (bitmap.bits - 1)

\* as long as no set meets a set bit and no clear meets a clear bit the
\* count stays the number of set bits
BitmapUsedExactOnFlips ==
  [][(/\ bitmap.used = Cardinality(BitmapSetBits)
      /\ last'.op = "set" => ~Bitmap_get(bitmap, last'.arg)
      /\ last'.op = "clear" => Bitmap_get(bitmap, last'.arg))
       => (bitmap.used = Cardinality(BitmapSetBits))']_vars

(***************************************************************************)
(* List nodes driven by insert_before, insert_after and remove.  The node  *)
(* handed in as item is in no list (the callers insert fresh or removed    *)
(* nodes), at is any other node.                                           *)
(***************************************************************************)
ListOps == {"insert_before", "insert_after", "remove"}

Unlinked(S, n) == S[n].next = NULL /\ S[n].prev = NULL

ListCall(op, item, at, S) ==
  /\ SetH([H EXCEPT !.links = S])
  /\ last' = [op |-> op, item |-> item, at |-> at,
              was_prev |-> links[item].prev, was_next |-> links[item].next]
  /\ UNCHANGED <<sz, ci, alive, live>>

ListInsertBefore(item, at) ==
  /\ item # at
  /\ Unlinked(links, item)
  /\ ListCall("insert_before", item, at, insert_before(links, item, at))

ListInsertAfter(item, at) ==
  /\ item # at
  /\ Unlinked(links, item)
  /\ ListCall("insert_after", item, at, insert_after(links, item, at))

ListRemove(item) == ListCall("remove", item, NULL, remove(links, item))

NextList ==
  \/ \E item \in ListNodes, at \in ListNodes : ListInsertBefore(item, at)
  \/ \E item \in ListNodes, at \in ListNodes : ListInsertAfter(item, at)
  \/ \E item \in ListNodes : ListRemove(item)

SpecList == Init /\ [][NextList]_vars

\* y is met on the way from x along next
RECURSIVE ListReaches(_, _, _, _)
ListReaches(S, x, y, fuel) ==
  IF fuel = 0 \/ S[x].next = NULL THEN FALSE
  ELSE S[x].next = y \/ ListReaches(S, S[x].next, y, fuel - 1)

ListBefore(S, x, y) == ListReaches(S, x, y, MaxListNodes)

ListConsistent(S) ==
  \A x \in ListNodes, y \in ListNodes : (S[x].next = y) <=> (S[y].prev = x)

(***************************************************************************)
(* Properties of the list (checked under SpecList)                         *)
(***************************************************************************)

\* C28: after every insert_before, insert_after and remove the links are
\* mutually consistent (x.next is y exactly when y.prev is x), the nodes
\* other than the one the call was given are in the order they were in, the
\* inserted node stands right before (after) the node it was inserted at,
\* and a removed node has neither next nor prev.
C28_LinksConsistentOrderKept ==
  [][last'.op \in ListOps =>
       /\ ListConsistent(links')
       /\ \A x \in ListNodes \ {last'.item}, y \in ListNodes \ {last'.item} :
             ListBefore(links, x, y) <=> ListBefore(links', x, y)
       /\ last'.op = "insert_before" => links'[last'.item].next = last'.at
       /\ last'.op = "insert_after" => links'[last'.item].prev = last'.at
       /\ last'.op = "remove" => Unlinked(links', last'.item)]_vars

\* a node was removed from between two others, which are now neighbours
C28_RemovedFromMiddle ==
  /\ last.op = "remove"
  /\ last.was_prev # NULL
  /\ last.was_next # NULL
  /\ links[last.was_prev].next = last.was_next
  /\ links[last.was_next].prev = last.was_prev
  /\ Unlinked(links, last.item)


(***************************************************************************)
(* A Bump driven on its own: new, then allocations of any layout with the   *)
(* OS granting or refusing each chunk at a base of its choice, then drop.   *)
(* last.pre is the Bump before the call.                                    *)
(***************************************************************************)
BumpOps == {"bump_new", "bump_allocate", "bump_drop"}

BumpCall(op, size, align, base, os_ok, ok, ret) ==
  last' = [op |-> op, size |-> size, align |-> align, base |-> base,
           os_ok |-> os_ok, ok |-> ok, ret |-> ret, pre |-> bump]

BumpNew(chunk_size) ==
  /\ alive[1]
  /\ bump.kind = "none"
  /\ SetH(Bump_new(H, chunk_size))
  /\ BumpCall("bump_new", chunk_size, 1, NULL, FALSE, TRUE, NULL)
  /\ UNCHANGED <<sz, ci, alive, live>>

BumpAllocate(size, align, base, os_ok) ==
  /\ alive[1]
  /\ bump.kind = "live"
  /\ With(Bump_allocate(H, size, align, base, os_ok),
          LAMBDA r :
            /\ SetH(r.h)
            /\ BumpCall("bump_allocate", size, align, base, os_ok, r.ok,
                        IF r.ok THEN r.val ELSE NULL))
  /\ UNCHANGED <<sz, ci, alive, live>>

BumpDrop ==
  /\ alive[1]
  /\ bump.kind = "live"
  /\ SetH(Bump_drop(H))
  /\ BumpCall("bump_drop", 0, 1, NULL, FALSE, TRUE, NULL)
  /\ UNCHANGED <<sz, ci, alive, live>>

NextBump ==
  \/ \E chunk_size \in BumpChunkSizes : BumpNew(chunk_size)
  \/ \E size \in BumpSizes, align \in BumpAligns, base \in BumpBases,
        os_ok \in BOOLEAN : BumpAllocate(size, align, base, os_ok)
  \/ BumpDrop

SpecBump == Init /\ [][NextBump]_vars


\* the chunk at a has room for size bytes at an address that is a multiple
\* of align, at or after its offset
ChunkFits(b, a, size, align) ==
  \E start \in b.chunks[a].offset .. b.chunks[a].max :
    (a + start) % align = 0 /\ start + size <= b.chunks[a].max

\* what Bump::allocate is to ask the OS for when the tail cannot serve
BumpGrowSize(b, size) == page_align(Max(b.chunk_size, Chunk_data_offset + size))

\* the OS grants the extent of the call in last
BumpGranted ==
  /\ last.os_ok
  /\ OS_free_range([bump |-> last.pre], last.base, BumpGrowSize(last.pre, last.size))

\* the call in last is an allocate that the tail chunk could not serve
BumpTailCannot ==
  /\ last.op = "bump_allocate"
  /\ last.pre.tail # NULL
  /\ ~ChunkFits(last.pre, last.pre.tail, last.size, last.align)

\* the chunks there were before the call, and what was handed out of them,
\* are as they were; the old tail has at most got a successor
BumpEarlierUntouched ==
  /\ bump.head = last.pre.head
  /\ \A a \in BumpBases :
       last.pre.chunks[a].live =>
         /\ bump.os[a] = last.pre.os[a]
         /\ bump.rel[a] = last.pre.rel[a]
         /\ bump.chunks[a].live
         /\ bump.chunks[a].offset = last.pre.chunks[a].offset
         /\ bump.chunks[a].max = last.pre.chunks[a].max
         /\ bump.chunks[a].prev = last.pre.chunks[a].prev
         /\ a # last.pre.tail => bump.chunks[a].next = last.pre.chunks[a].next

\* the new chunk is the tail, after the old tail, of the size asked for, and
\* the request lies in it, after the Chunk itself, at a multiple of align
BumpServedFromNewTail ==
  /\ last.ok
  /\ bump.tail = last.base
  /\ bump.chunks[last.pre.tail].next = last.base
  /\ bump.chunks[last.base].prev = last.pre.tail
  /\ bump.chunks[last.base].next = NULL
  /\ bump.os[last.base] = BumpGrowSize(last.pre, last.size)
  /\ last.ret >= last.base + CHUNK_SIZEOF
  /\ last.ret + last.size <= last.base + bump.os[last.base]
  /\ last.ret % last.align = 0

\* C29: when the tail chunk of a Bump cannot serve a request, allocate
\* appends a chunk of max(chunk_size, header + request) bytes rounded up to
\* pages as the new tail and serves the request from it; the call fails only
\* if the OS refuses the chunk; the earlier chunks are untouched.
C29_BumpGrowsByOneChunk ==
  BumpTailCannot =>
    /\ BumpEarlierUntouched
    /\ IF BumpGranted THEN BumpServedFromNewTail ELSE ~last.ok

\* the same for layouts whose alignment is at most a page
BumpGrowsForPageAlignments ==
  (BumpTailCannot /\ last.align <= PageSize) =>
    /\ BumpEarlierUntouched
    /\ IF BumpGranted THEN BumpServedFromNewTail ELSE ~last.ok /\ bump = last.pre

\* a second chunk has been appended and has served the request
BumpHasGrown ==
  /\ BumpTailCannot /\ last.align <= PageSize /\ BumpGranted
  /\ last.pre.chunk_size = 0 /\ last.size > PageSize

\* the OS grants the chunk and the call fails all the same
BumpGrantedButFails == BumpTailCannot /\ BumpGranted /\ ~last.ok

\* C30: dropping a Bump that has grown to k chunks gives all k extents back
\* to the OS, each exactly once.
C30_DropReleasesEveryChunk ==
  last.op = "bump_drop" =>
    \A a \in BumpBases :
      last.pre.os[a] # 0 =>
        bump.os[a] = 0 /\ bump.rel[a] = last.pre.rel[a] + 1

\* no extent is given back twice, and the head chunk's is given back
BumpDropReleasesHeadOnce ==
  last.op = "bump_drop" =>
    /\ \A a \in BumpBases : bump.rel[a] <= 1
    /\ last.pre.head # NULL =>
         bump.os[last.pre.head] = 0 /\ bump.rel[last.pre.head] = 1

\* every chunk of a Bump is mapped, and nothing else is
BumpChunksAreTheExtents ==
  bump.kind = "live" =>
    \A a \in BumpBases :
      /\ bump.chunks[a].live <=> bump.os[a] # 0
      /\ bump.chunks[a].live => bump.chunks[a].max = bump.os[a]


(***************************************************************************)
(* The rings of one thread cache against each other                        *)
(***************************************************************************)
\* the pointers the ring of class c of thread t holds, oldest first
RingSeq(t, c) ==
  [i \in 1 .. tc[t].ring[c].len |->
     tc[t].store[store_base(c) + ((tc[t].ring[c].tail + i - 1) % store_len(c))]]

\* C31: the slot buffers of different classes of one thread cache are
\* disjoint parts of the backing extent: a push, pop or refill on the ring
\* of one class never changes a pointer held in the ring of another class.
C31_OtherRingsKept ==
  [][\A t \in Threads, c \in Classes, d \in Classes :
       (/\ last'.op \in {"alloc", "free"}
        /\ last'.t = t
        /\ last'.cls = c
        /\ d # c)
       => RingSeq(t, d)' = RingSeq(t, d)]_vars

\* the rings keep their lengths and positions over such a call all the same
OtherRingStatesKept ==
  [][\A t \in Threads, c \in Classes, d \in Classes :
       (/\ last'.op \in {"alloc", "free"}
        /\ last'.t = t
        /\ last'.cls = c
        /\ d # c)
       => tc'[t].ring[d] = tc[t].ring[d]]_vars


(***************************************************************************)
(* The lists of a bin over a deallocate that empties a slab (SpecBin)      *)
(***************************************************************************)
\* the slabs met from slab n along next, at most k of them
RECURSIVE ChainFrom(_, _, _)
ChainFrom(S, n, k) ==
  IF n = NULL \/ k = 0 THEN {}
  ELSE {n} \cup ChainFrom(S, S[n].next, k - 1)

\* the step is a Bin::deallocate that clears the last region of slab s of
\* class c
BinEmpties(s, c) ==
  /\ last'.op = "deallocate"
  /\ last'.ok
  /\ has_ptr(slabs[s], last'.ptr)
  /\ slabs[s].class = c
  /\ slabs[s].bits = {index_for(slabs[s], last'.ptr)}
  /\ slabs'[s].bits = {}

\* active_tail is the last slab of the chain from active_head
BinTailEndsChain(S, bin) ==
  IF bin.active_head = NULL THEN bin.active_tail = NULL
  ELSE /\ bin.active_tail \in ChainFrom(S, bin.active_head, Len(S))
       /\ S[bin.active_tail].next = NULL

\* C32: when Bin::deallocate empties the slab that is the active head (the
\* active tail), active_head (active_tail) becomes its former successor
\* (predecessor): every other active slab stays reachable from active_head,
\* active_tail stays the last slab of that chain, and the emptied slab is
\* the head of the free list.
C32_RetirePatchesHeadAndTail ==
  [][\A s \in DOMAIN slabs, c \in Classes :
       BinEmpties(s, c) =>
         /\ bins[0][c].active_head = s => bins'[0][c].active_head = slabs[s].next
         /\ bins[0][c].active_tail = s => bins'[0][c].active_tail = slabs[s].prev
         /\ ChainFrom(slabs', bins'[0][c].active_head, Len(slabs'))
              = ChainFrom(slabs, bins[0][c].active_head, Len(slabs)) \ {s}
         /\ BinTailEndsChain(slabs', bins'[0][c])
         /\ bins'[0][c].free_head = s]_vars

\* the same when the emptied slab is the only active slab of its bin
BinRetireOfOnlyActiveSlab ==
  [][\A s \in DOMAIN slabs, c \in Classes :
       (/\ BinEmpties(s, c)
        /\ bins[0][c].active_head = s
        /\ bins[0][c].active_tail = s) =>
         /\ bins'[0][c].active_head = NULL
         /\ bins'[0][c].active_tail = NULL
         /\ bins'[0][c].free_head = s
         /\ slabs'[s].prev = NULL]_vars


(***************************************************************************)
(* Threads acquiring their arena, interleaved at every access to BM_LAST,   *)
(* the bitmap and the directory.  A panic ends the process.                 *)
(***************************************************************************)
DirStep(op, t, h) ==
  /\ alive[1]
  /\ dir.panic = "no"
  /\ SetH(h)
  /\ last' = [op |-> op, t |-> t]
  /\ UNCHANGED <<sz, ci, alive, live>>

DirLoadLast(t) ==
  /\ dir.th[t].pc = "new"
  /\ DirStep("load_last", t, Dir_load_last(H, t))

DirFind(t) ==
  /\ dir.th[t].pc = "find"
  /\ DirStep("find_fc", t, Dir_find(H, t))

DirSet(t) ==
  /\ dir.th[t].pc = "set"
  /\ DirStep("set", t, Dir_set(H, t))

DirStoreLast(t) ==
  /\ dir.th[t].pc = "store"
  /\ DirStep("store_last", t, Dir_store_last(H, t))

DirLoadArena(t) ==
  /\ dir.th[t].pc = "load"
  /\ DirStep("load_arena", t, Dir_load_arena(H, t))

DirCreateArena(t, os_ok) ==
  /\ dir.th[t].pc = "create"
  /\ DirStep("create_arena", t, Dir_create_arena(H, t, os_ok))

\* the thread ends; no destructor touches the directory
DirExit(t) ==
  /\ dir.th[t].pc = "held"
  /\ DirStep("exit", t, [H EXCEPT !.dir.th[t].pc = "exited"])

NextDir ==
  \/ \E t \in DirThreads : DirLoadLast(t)
  \/ \E t \in DirThreads : DirFind(t)
  \/ \E t \in DirThreads : DirSet(t)
  \/ \E t \in DirThreads : DirStoreLast(t)
  \/ \E t \in DirThreads : DirLoadArena(t)
  \/ \E t \in DirThreads, os_ok \in BOOLEAN : DirCreateArena(t, os_ok)
  \/ \E t \in DirThreads : DirExit(t)

SpecDir == Init /\ [][NextDir]_vars

\* C33: under any interleaving of threads acquiring an arena for the first
\* time, no two live threads are given the same directory arena: a directory
\* slot is claimed by at most one thread at a time.
C33_NoTwoThreadsShareASlot ==
  \A t \in DirThreads, u \in DirThreads :
    (t # u /\ dir.th[t].pc = "held" /\ dir.th[u].pc = "held") =>
      dir.th[t].idx # dir.th[u].idx

\* threads whose acquisitions did not overlap hold different slots, also
\* after earlier threads have exited
DirSerialAcquisitionsDistinct ==
  ~dir.overlap =>
    \A t \in DirThreads, u \in DirThreads :
      (t # u /\ dir.th[t].pc \in {"held", "exited"}
             /\ dir.th[u].pc \in {"held", "exited"}) =>
        dir.th[t].idx # dir.th[u].idx

\* two threads hold slots that they acquired one after the other
DirTwoSerialHolders ==
  /\ ~dir.overlap
  /\ dir.th[1].pc = "held" /\ dir.th[2].pc = "held"

\* C36: arena acquisition only yields directory indices below MAX_ARENAS,
\* and a thread that holds one is served by that directory arena; when every
\* slot is taken a further thread is served by the fallback arena: the
\* acquisition neither panics nor indexes outside the directory.
C36_IndexBelowMaxOrFallback ==
  /\ dir.panic \notin {"index", "full"}
  /\ \A t \in DirThreads :
       dir.th[t].pc = "held" =>
         /\ dir.th[t].idx \in Arenas
         /\ BaseAlloc_acquire_arena([dir |-> dir], t) # FALLBACK

\* while a directory slot is free, an acquisition that does not overlap
\* another one yields an index below MAX_ARENAS and the arena of that slot
DirIndexInRangeWhileSlotsFree ==
  \A t \in DirThreads :
    (dir.th[t].pc = "held" /\ ~dir.overlap) =>
      /\ dir.th[t].idx \in Arenas
      /\ BaseAlloc_acquire_arena([dir |-> dir], t) = dir.arenas[dir.th[t].idx]


(***************************************************************************)
(* One remove and one insert on a shared tree, interleaved, after the tree  *)
(* has been filled by inserts that ran alone                                *)
(***************************************************************************)
RaceStep(op, key, h) ==
  /\ alive[1]
  /\ SetH(h)
  /\ last' = [op |-> op, key |-> key]
  /\ UNCHANGED <<sz, ci, alive, live>>

RaceSetup(key, val) ==
  /\ race.rem.pc = "idle" /\ race.ins.pc = "idle"
  /\ Len(rtree.nodes) < MaxNodes
  /\ With(RTree_insert(H, key, val, TRUE, "none"),
          LAMBDA r : RaceStep("setup", key, r.h))

\* the two callers own different pages
RaceRemoveBegin(key) ==
  /\ race.rem.pc = "idle"
  /\ race.ins.pc = "idle" \/ race.ins.key # key
  /\ RaceStep("remove", key, Race_remove_begin(H, key))

RacePruneCheck ==
  /\ race.rem.pc = "check"
  /\ RaceStep("should_remove_node", race.rem.key, Race_prune_check(H))

RacePruneClear ==
  /\ race.rem.pc = "clear"
  /\ RaceStep("clear_child", race.rem.key, Race_prune_clear(H))

RaceInsertBegin(key, val) ==
  /\ race.ins.pc = "idle"
  /\ race.rem.pc = "idle" \/ race.rem.key # key
  /\ RaceStep("insert", key, Race_insert_begin(H, key, val))

RaceRootCas ==
  /\ race.ins.pc = "root_cas"
  /\ RaceStep("root_cas", race.ins.key, Race_root_cas(H))

RaceChildLoad ==
  /\ race.ins.pc = "child"
  /\ RaceStep("load_child", race.ins.key, Race_child_load(H))

RaceChildCas ==
  /\ race.ins.pc = "child_cas"
  /\ RaceStep("cas_child", race.ins.key, Race_child_cas(H))

RaceStore ==
  /\ race.ins.pc = "store"
  /\ RaceStep("store", race.ins.key, Race_store(H))

NextRace ==
  \/ \E key \in RKeys, val \in RVals : RaceSetup(key, val)
  \/ \E key \in RKeys : RaceRemoveBegin(key)
  \/ RacePruneCheck
  \/ RacePruneClear
  \/ \E key \in RKeys, val \in RVals : RaceInsertBegin(key, val)
  \/ RaceRootCas
  \/ RaceChildLoad
  \/ RaceChildCas
  \/ RaceStore

SpecRace == Init /\ [][NextRace]_vars

\* the two keys lie under the same interior node
RaceSameInterior(k1, k2) ==
  k1 # k2 /\ \A level \in 0 .. (RTree_levels - 2) :
               RTree_index_for(k1, level) = RTree_index_for(k2, level)

\* C34: when one caller removes the last entry under an interior node, which
\* prunes the node, while another inserts an entry for a different page
\* under the same interior node, the completed insert is not lost: a lookup
\* of the inserted page afterwards returns the value inserted.
C34_ConcurrentInsertNotLost ==
  (/\ race.ins.pc = "done" /\ race.ins.ok
   /\ race.rem.pc = "done"
   /\ RaceSameInterior(race.rem.key, race.ins.key)) =>
     RTree_lookup([rtree |-> rtree], race.ins.key) = race.ins.val

\* the same when the two calls do not overlap
RaceSerialInsertKept ==
  (/\ race.ins.pc = "done" /\ race.ins.ok
   /\ race.rem.pc \in {"idle", "done"}
   /\ ~race.overlap) =>
     RTree_lookup([rtree |-> rtree], race.ins.key) = race.ins.val

\* a remove that pruned an interior node and an insert under that node have
\* both run, one after the other
RaceSerialPruneThenInsert ==
  /\ race.ins.pc = "done" /\ race.ins.ok /\ race.rem.pc = "done"
  /\ ~race.overlap
  /\ race.rem.node # NULL
  /\ RaceSameInterior(race.rem.key, race.ins.key)


\* C35: an allocation stays valid until it is deallocated, also after the
\* thread that allocated it has exited: thread exit tears no arena down.
\* The slabs, large extents, bins, extent trees, arena map, lookup tree,
\* mapped pages, memory contents and directory slots are as before, and
\* every live region that was mapped is still mapped.
C35_ArenaOutlivesItsThread ==
  [][last'.op = "exit" =>
       /\ <<slabs, larges, bins, etree, amap, LOOKUP, mapped, mem, arena_bm,
            thread_arena>>' =
          <<slabs, larges, bins, etree, amap, LOOKUP, mapped, mem, arena_bm,
            thread_arena>>
       /\ \A x \in live :
            page_align_down(x.ptr) \in mapped =>
              /\ x \in live'
              /\ page_align_down(x.ptr) \in mapped']_vars

\* a thread has exited while a region from a slab of its arena is live and
\* mapped
C35_ExitedWithLiveRegion ==
  /\ last.op = "exit"
  /\ \E x \in live :
       /\ page_align_down(x.ptr) \in mapped
       /\ \E i \in DOMAIN slabs :
            /\ slabs[i].arena = thread_arena[last.t]
            /\ slabs[i].base <= x.ptr /\ x.ptr < slabs[i].base + slabs[i].len


\* the arena-side state: slabs, bins, extent trees, arena map, mapped pages
ArenaState == <<slabs, larges, bins, etree, amap, LOOKUP, mapped>>

\* the region of ptr is clear in the bitmap of the slab of S that contains it
RegionFreeIn(S, ptr) ==
  \E i \in DOMAIN S :
     /\ has_ptr(S[i], ptr)
     /\ index_for(S[i], ptr) \notin S[i].bits

\* the step is a free, by thread t, of a pointer of class c; the rings of the
\* build hold CACHE_MIN = 8 slots or more, so a ring of one slot, whose half
\* is empty, is left out
FreeOfClassed(t, c) ==
  /\ store_len(c) >= 2
  /\ last'.op = "free" /\ last'.t = t /\ last'.cls = c
  /\ ~is_invalid(last'.ptr) /\ last'.size > 0

\* C37: TCache.deallocate on a full ring of length len first removes the
\* floor(len/2) oldest pointers, returning each to an arena, and then pushes
\* the freed pointer, leaving len - floor(len/2) + 1 entries; on a ring that
\* is not full the pointer is only pushed and no arena state changes; in
\* every case the freed pointer is in the ring or deallocated to an arena.
C37_FlushHalfThenPush ==
  [][\A t \in Threads, c \in Classes :
       FreeOfClassed(t, c) =>
         LET n == tc[t].ring[c].len IN
         /\ n < store_len(c) =>
              /\ RingSeq(t, c)' = Append(RingSeq(t, c), last'.ptr)
              /\ ArenaState' = ArenaState
         /\ n = store_len(c) =>
              /\ RingSeq(t, c)' =
                   Append(SubSeq(RingSeq(t, c), (n \div 2) + 1, n), last'.ptr)
              /\ \A i \in 1 .. (n \div 2) : RegionFreeIn(slabs', RingSeq(t, c)[i])
         /\ \/ last'.ptr \in RingPtrs(H, t, c)'
            \/ RegionFreeIn(slabs', last'.ptr)]_vars


\* ptr resolves to a slab of thread t's own arena and its region is allocated
OwnAllocated(t, ptr) ==
  /\ lookup(H, ptr).kind = "slab"
  /\ lookup(H, ptr).arena = thread_arena[t]
  /\ ~RegionFreeIn(slabs, ptr)

\* the same for frees in which the freed pointer and the pointers waiting in
\* the ring are distinct allocated regions of the freeing thread's own arena
TCacheFlushOfOwnPointers ==
  [][\A t \in Threads, c \in Classes :
       (/\ FreeOfClassed(t, c)
        /\ OwnAllocated(t, last'.ptr)
        /\ last'.ptr \notin RingPtrs(H, t, c)
        /\ Cardinality(RingPtrs(H, t, c)) = tc[t].ring[c].len
        /\ \A q \in RingPtrs(H, t, c) : OwnAllocated(t, q)) =>
         LET n == tc[t].ring[c].len IN
         /\ n < store_len(c) =>
              /\ RingSeq(t, c)' = Append(RingSeq(t, c), last'.ptr)
              /\ ArenaState' = ArenaState
         /\ n = store_len(c) =>
              /\ RingSeq(t, c)' =
                   Append(SubSeq(RingSeq(t, c), (n \div 2) + 1, n), last'.ptr)
              /\ \A i \in 1 .. (n \div 2) : RegionFreeIn(slabs', RingSeq(t, c)[i])
         /\ \/ last'.ptr \in RingPtrs(H, t, c)'
            \/ RegionFreeIn(slabs', last'.ptr)]_vars


\* the links of every slab of S are as in T, and a slab T does not have is
\* linked to nothing
LinksKept(T, S) ==
  \A i \in DOMAIN S :
     IF i \in DOMAIN T
     THEN S[i].next = T[i].next /\ S[i].prev = T[i].prev
     ELSE S[i].next = NULL /\ S[i].prev = NULL

\* C38: when Bin.allocate has to create a slab (no active slab can serve and
\* the free list is empty) and the creation fails, the error is returned and
\* the bin's free_head, active_head, active_tail and the links of every slab
\* are unchanged.
C38_FailedSlabCreationLeavesLists ==
  [][\A c \in Classes :
       (/\ last'.op = "allocate" /\ last'.cls = c
        /\ ~alloc_fast(H, 0, c).ok
        /\ bins[0][c].free_head = NULL
        /\ ~Slab_new(H, 0, c).ok) =>
          /\ ~last'.ok
          /\ bins' = bins
          /\ LinksKept(slabs, slabs')]_vars

\* Bin.allocate has failed to create a slab while the bin holds two linked
\* slabs
C38_CreationFailedWithLinkedSlabs ==
  /\ last.op = "allocate" /\ ~last.ok
  /\ bins[0][last.cls].free_head = NULL
  /\ ~Slab_new(H, 0, last.cls).ok
  /\ bins[0][last.cls].active_head # NULL
  /\ bins[0][last.cls].active_head # bins[0][last.cls].active_tail


\* the slabs on the free list of a bin
FreeListed == UNION { ChainFrom(slabs, bins[0][c].free_head, Len(slabs)) : c \in Classes }

\* C39: a slab's extent is only reserved from creation until its first
\* allocate, which activates it; every slab holding an allocated region has
\* an activated extent; a slab retired to the free list has been deactivated
\* and is activated again before it serves an allocation.  Between the calls
\* of a bin: the slabs that are not activated are the slabs on the free list,
\* these hold no region, and the slab that served the last allocation is
\* activated.
C39_ActivatedWhileServing ==
  /\ \A i \in DOMAIN slabs : slabs[i].bits # {} => Extent_is_activated(slabs[i])
  /\ \A i \in DOMAIN slabs : ~Extent_is_activated(slabs[i]) <=> i \in FreeListed
  /\ \A i \in FreeListed : slabs[i].bits = {}
  /\ (last.op = "allocate" /\ last.ok) =>
       \A i \in DOMAIN slabs :
          has_ptr(slabs[i], last.ptr) => Extent_is_activated(slabs[i])

\* a slab that was retired to the free list has been taken from it and has
\* served the last allocation, while another slab waits on the free list
C39_RecycledSlabServes ==
  /\ last.op = "allocate" /\ last.ok /\ last.nfree > 0
  /\ FreeListed # {}
  /\ \E i \in DOMAIN slabs :
       /\ has_ptr(slabs[i], last.ptr)
       /\ slabs[i].bits # {} /\ Extent_is_activated(slabs[i])
       /\ \E j \in FreeListed : j > i


\* ptr lies outside the extent of slab sl
OutsideExtent(sl, ptr) == ptr < sl.base \/ ptr >= sl.base + sl.len

\* C40: Slab.deallocate on a pointer outside the slab's extent returns
\* InvalidPointer and leaves the slab's bitmap, used count and cursor
\* unchanged.
C40_OutsidePointerRefused ==
  [][(last'.op = "deallocate" /\ OutsideExtent(slabs[1], last'.ptr)) =>
        /\ ~last'.ok
        /\ slabs'[1].bits = slabs[1].bits
        /\ slabs'[1].used = slabs[1].used
        /\ slabs'[1].last = slabs[1].last
        /\ live' = live]_vars

\* the first address past a slab with regions allocated and a moved cursor
\* has been refused
C40_PastEndRefused ==
  /\ last.op = "deallocate" /\ ~last.ok
  /\ last.ptr = slabs[1].base + slabs[1].len
  /\ slabs[1].bits # {}
  /\ slabs[1].last # 0

\* the address before a slab has been refused
C40_BelowBaseRefused ==
  /\ last.op = "deallocate" /\ ~last.ok
  /\ last.ptr < slabs[1].base
  /\ slabs[1].bits # {}

=============================================================================
